---------------------------- MODULE Spec2Model ----------------------------
(***************************************************************************)
(* The shard builder (indexer::index_builder) and the shard reader         *)
(* (FullTextShard) of the alexandria full text index, as a state machine   *)
(* over the files of one shard.                                            *)
(*                                                                         *)
(* Files are sequences of 8 byte words (every offset the code computes is  *)
(* a multiple of 8); a record takes RecordSize bytes: one word for         *)
(* m_value, one word for the 32 bit m_score and its padding.  Offsets are  *)
(* kept in bytes, as the code keeps them.                                  *)
(***************************************************************************)
EXTENDS Integers, Sequences, FiniteSets, TLC

(***************************************************************************)
(* Bounds of the model.                                                    *)
(***************************************************************************)
\* keys passed to add() are 1..MaxKey
MaxKey == 3
\* record values are 1..MaxValue
MaxValue == 5
\* record scores passed to add() are 1..MaxScore
MaxScore == 2
\* number of add() calls in one behaviour
MaxAdds == 2
\* number of values the shard that exists before construction holds for key 1
InitValues == 3
\* the bytes of payload the reader's find is followed for
MaxFindBytes == 128

(***************************************************************************)
(* Program constants.                                                      *)
(***************************************************************************)
\* Config::ft_max_results_per_section (P); config.h is not among the sources,
\* the value is the one of the specification's scenarios
ft_max_results_per_section == 2
\* Config::ft_max_sections (S)
ft_max_sections == 2
\* the hash table size a builder is constructed with when it uses a key file
HashTableSize == 2
\* sizeof(data_record): uint64_t m_value, 32 bit m_score, padding
RecordSize == 16
\* SIZE_MAX, the empty slot of the key file (the largest number of the checker)
SIZE_MAX == 2147483647

\* index_builder::m_max_num_keys (10000 in the code), the ceiling of num_keys
m_max_num_keys == 2

Keys == 1..MaxKey
Values == 1..MaxValue

(***************************************************************************)
(* The record type (domain_record / url_record / FullTextRecord): equality *)
(* and order by m_value, += sums the score.                                *)
(***************************************************************************)
Record(v, s) == [value |-> v, score |-> s]

record_lt(a, b) == a.value < b.value

record_eq(a, b) == a.value = b.value

record_plus(a, b) == [value |-> a.value, score |-> a.score + b.score]

\* The score of the records the model adds for a value: the input set of add()
\* has one record per value, scores repeat (ties) and differ.
ScoreOf(v) == 1 + (v % MaxScore)

\* The (key, record) pairs add() is called with: key 1 occurs with every value,
\* the other keys with value 1.
Inputs ==
    {<<k, Record(v, ScoreOf(v))>> : k \in {1}, v \in Values}
        \cup {<<k, Record(1, ScoreOf(1))>> : k \in Keys \ {1}}

(***************************************************************************)
(* Small helpers on sequences and sets.                                    *)
(***************************************************************************)
Min(a, b) == IF a < b THEN a ELSE b

RECURSIVE SortedSeqOf(_)
SortedSeqOf(S) ==
    IF S = {} THEN <<>>
    ELSE LET m == CHOOSE x \in S : \A y \in S : x <= y
         IN <<m>> \o SortedSeqOf(S \ {m})

RECURSIVE SumSeq(_)
SumSeq(s) == IF s = <<>> THEN 0 ELSE Head(s) + SumSeq(Tail(s))

RECURSIVE Concat(_)
Concat(ss) == IF ss = <<>> THEN <<>> ELSE Head(ss) \o Concat(Tail(ss))

\* the words lo..hi (1-based, inclusive) of a file; words past the end are not read
Words(file, lo, hi) == SubSeq(file, lo, Min(hi, Len(file)))

RECURSIVE Pow2(_)
Pow2(e) == IF e = 0 THEN 1 ELSE 2 * Pow2(e - 1)

RECURSIVE Log2(_)
Log2(n) == IF n < 2 THEN 0 ELSE 1 + Log2(n \div 2)

\* 2^23: a float has 23 bits of mantissa
Mantissa == 2048 * 4096

\* the 32 bits of the float m_score of a record, as a number (scores are whole
\* and not negative here): sign 0, exponent 127 + e, 23 bits of mantissa
float_bits(s) ==
    IF s = 0 THEN 0
    ELSE LET e == Log2(s)
         IN (127 + e) * Mantissa + (s - Pow2(e)) * (Mantissa \div Pow2(e))

\* the float those 32 bits are
float_of_bits(w) ==
    IF w = 0 THEN 0
    ELSE LET e == (w \div Mantissa) - 127
         IN Pow2(e) + (w % Mantissa) \div (Mantissa \div Pow2(e))

VARIABLES
    m_hash_table_size,  \* index_builder::m_hash_table_size (const member)
    sort_ties,          \* how this build's std::sort orders records of equal score
    m_keys,             \* index_builder::m_keys
    m_records,          \* index_builder::m_records
    m_cache,            \* index_builder::m_cache: key -> records
    m_total_results,    \* index_builder::m_total_results: key -> count
    key_cache_file,     \* <id>.cache.keys: sequence of keys
    cache_file,         \* <id>.cache: sequence of records
    data_file,          \* <id>.data: sequence of words
    key_file,           \* <id>.keys: sequence of words (<<>>: no file)
    meta_file,          \* <id>.meta
    merge_hll,          \* the local hll of merge()
    merge_pages,        \* save_file: the slots of `pages` still to be written
    merge_from,         \* the files as they were when the running merge() was called
    added,              \* the (key, record) pairs passed to add() and not yet merged
                        \* or dropped: those since the last append(), those appended
    reader,             \* a FullTextShard on this shard, and what its last find() gave
    pc,                 \* the step merge() is at ("idle": no merge running)
    n_adds,             \* number of add() calls so far
    hb_n,               \* hyper_ball: n, the number of vertices
    hb_edge_map,        \* hyper_ball: edge_map, vertex v at index v + 1
    hb_c,               \* hyper_ball: the counters c, vertex -> counter
    hb_a,               \* hyper_ball: the counters a
    hb_harmonic,        \* hyper_ball: harmonic, in units of 1 / HarmonicScale
    hb_t,               \* hyper_ball: t
    hb_threads,         \* hyper_ball: the threads of the round, where each is
    hb_pc,              \* hyper_ball: where the function itself is
    hb_c_start,         \* the counters c as they were when the round's threads started
    hb_rounds,          \* number of rounds whose threads were all joined
    console_fn,         \* console: the batch driver that runs
    console_pc,         \* console: the statement the driver is at
    console_offset,     \* console: offset
    console_paths,      \* console: number of lines of the batch's warc.paths.gz
    console_warc_paths, \* console: warc_paths.size()
    merger_running,     \* merger: the flag of the merger thread's loop
    merger_merges,      \* merger: number of passes the merger thread has made
    local_files,        \* run: local_files, each file as it will open ("ok", "unreadable")
    chunks,             \* run: chunks
    ft_num_shards,      \* Config::ft_num_shards
    runner_pc,          \* run: the statement run() is at
    shard_id,           \* truncate_cache, merge: shard_id; run: chunks enqueued so far
    truncating,         \* truncate_cache: truncate_cache_files() of shard_id is running
    index_threads,      \* run: the tasks of `pool`, by id
    m_full_text_mutexes,          \* shard -> id of the task that holds it (0: free)
    m_hash_table_mutexes,         \* id of the task that holds the mutex of hash table shard 0
    m_write_url_to_domain_mutex,  \* id of the task that holds it
    merge_results,      \* merge: the tasks of merge_results, each with its shard
    merges_done,        \* shard -> number of times shard.merge() has run to its end
    fn_call,            \* a function called on its own: its name and its arguments
    fn_result,          \* what that call came to
    m_shards,           \* UrlStore::m_shards: key -> the string stored for it (<<>>: none)
    m_pending_inserts,  \* UrlStore::m_pending_inserts
    cache_files,        \* the files of url_store_cache_path: file name -> write_data
    n_puts,             \* number of put requests handled so far
    inserter_pc,        \* run_inserter: the statement it is at
    inserter_threads,   \* run_inserter: threads.size()
    _mutex,             \* run_inserter: the thread that holds _mutex (0: free)
    one_pc,             \* run_one_inserter: thread -> the statement it is at
    one_filename,       \* run_one_inserter: thread -> filename
    one_write_data,     \* run_one_inserter: thread -> write_data
    one_iter,           \* consume_write_data: thread -> the record `iter` is at
    one_batch,          \* consume_write_data: thread -> batch, the puts in order
    taken,              \* the (thread, file) pairs of next_pending_insert() in this call
    consumed,           \* file name -> number of consume_write_data calls on it
    deleted,            \* file name -> number of times the file was deleted
    at_call             \* m_pending_inserts and m_shards when run_inserter was called

\* a shard's builder and reader
shard_vars == <<m_hash_table_size, sort_ties, m_keys, m_records, m_cache, m_total_results,
                key_cache_file, cache_file, data_file, key_file, meta_file, merge_hll,
                merge_pages, merge_from, added, reader, pc, n_adds>>

\* algorithm::hyper_ball
hb_vars == <<hb_n, hb_edge_map, hb_c, hb_a, hb_harmonic, hb_t, hb_threads, hb_pc,
             hb_c_start, hb_rounds>>

\* the batch drivers of console.cpp and the merger thread
console_vars == <<console_fn, console_pc, console_offset, console_paths,
                  console_warc_paths, merger_running, merger_merges>>

\* FullTextIndexerRunner::run
runner_vars == <<local_files, chunks, ft_num_shards, runner_pc, shard_id, truncating,
                 index_threads, m_full_text_mutexes, m_hash_table_mutexes,
                 m_write_url_to_domain_mutex, merge_results, merges_done>>

\* a function called on its own
fn_vars == <<fn_call, fn_result>>

\* the UrlStore, its put handler and its inserter threads
store_vars == <<m_shards, m_pending_inserts, cache_files, n_puts, inserter_pc,
                inserter_threads, _mutex, one_pc, one_filename, one_write_data,
                one_iter, one_batch, taken, consumed, deleted, at_call>>

\* the parts that follow the runner
rest_vars == <<fn_vars, store_vars>>

\* what is not the shard
other_vars == <<hb_vars, console_vars, runner_vars, rest_vars>>

vars == <<shard_vars, other_vars>>

\* hyper_ball is not called
hyper_ball_not_called ==
    /\ hb_n = 0
    /\ hb_edge_map = <<>>
    /\ hb_c = <<>>
    /\ hb_a = <<>>
    /\ hb_harmonic = <<>>
    /\ hb_t = 0
    /\ hb_threads = <<>>
    /\ hb_pc = "idle"
    /\ hb_c_start = <<>>
    /\ hb_rounds = 0

\* no batch driver runs
console_not_called ==
    /\ console_fn = "none"
    /\ console_pc = "idle"
    /\ console_offset = 0
    /\ console_paths = 0
    /\ console_warc_paths = 0
    /\ merger_running = FALSE
    /\ merger_merges = 0

\* no function is called on its own
NoCall == [name |-> "none", args |-> <<>>]

fn_not_called ==
    /\ fn_call = NoCall
    /\ fn_result = <<>>

\* the most put requests, the most URLs, the most records of a request
MaxPuts == 3

MaxUrl == 1

MaxRecords == 1

\* const size_t num_threads = 16, scaled
MaxInserters == 2

\* the URL of UrlData{} and its key; the keys of the store
NoUrl == 0

StoreKeys == 0..MaxUrl

FileNames == 1..MaxPuts

Inserters == 1..MaxInserters

NoWriteData == [deferred |-> 0, update_bitmask |-> 0, datas |-> <<>>]

NotCalled == [pending |-> <<>>, shards |-> <<>>]

\* a UrlStore that holds nothing and has no inserter running
store_not_called ==
    /\ m_shards = [k \in StoreKeys |-> <<>>]
    /\ m_pending_inserts = <<>>
    /\ cache_files = <<>>
    /\ n_puts = 0
    /\ inserter_pc = "idle"
    /\ inserter_threads = 0
    /\ _mutex = 0
    /\ one_pc = [t \in Inserters |-> "none"]
    /\ one_filename = [t \in Inserters |-> 0]
    /\ one_write_data = [t \in Inserters |-> NoWriteData]
    /\ one_iter = [t \in Inserters |-> 0]
    /\ one_batch = [t \in Inserters |-> <<>>]
    /\ taken = <<>>
    /\ consumed = [f \in FileNames |-> 0]
    /\ deleted = [f \in FileNames |-> 0]
    /\ at_call = NotCalled

rest_not_called ==
    /\ fn_not_called
    /\ store_not_called

\* FullTextIndexerRunner::run is not called
run_not_called ==
    /\ local_files = <<>>
    /\ chunks = <<>>
    /\ ft_num_shards = 0
    /\ runner_pc = "idle"
    /\ shard_id = 0
    /\ truncating = FALSE
    /\ index_threads = <<>>
    /\ m_full_text_mutexes = <<>>
    /\ m_hash_table_mutexes = 0
    /\ m_write_url_to_domain_mutex = 0
    /\ merge_results = <<>>
    /\ merges_done = <<>>

EmptyMap == [k \in {} |-> <<>>]

\* std::sort on records of equal score is not stable: which of them comes first
\* is a fixed function of the input the standard leaves open.
TieOrders == {"low_value_first", "high_value_first"}

(***************************************************************************)
(* HyperLogLog, with the counter treated as the exact set of inserted       *)
(* values: insert adds, size() counts.                                     *)
(***************************************************************************)
NoMeta == [present |-> FALSE, unique_count |-> 0, registers |-> {}]

hll_insert(hll, v) == hll \cup {v}

hll_size(hll) == Cardinality(hll)


(***************************************************************************)
(* index_builder: reading the shard into m_cache.                          *)
(***************************************************************************)
RecordWords == RecordSize \div 8

\* m_cache[key].push_back(record)
cache_push(cache, key, rec) ==
    IF key \in DOMAIN cache
    THEN [cache EXCEPT ![key] = Append(@, rec)]
    ELSE cache @@ (key :> <<rec>>)

\* m_total_results[key] = total
totals_put(totals, key, total) ==
    IF key \in DOMAIN totals
    THEN [totals EXCEPT ![key] = total]
    ELSE totals @@ (key :> total)

RECURSIVE totals_put_all(_, _, _, _)
totals_put_all(totals, keys, tots, i) ==
    IF i > Len(keys) THEN totals
    ELSE totals_put_all(totals_put(totals, keys[i], tots[i]), keys, tots, i + 1)

\* read_page, the inner while: skip the keys that have no record left.
\* key_id counts from 0 as in the code; lens[num_keys] is never read for a
\* file written by write_page (the lengths add up to the data size).
RECURSIVE skip_keys(_, _, _, _)
skip_keys(lens, num_keys, key_id, num_records_for_key) ==
    IF num_records_for_key = 0 /\ key_id < num_keys
    THEN skip_keys(lens, num_keys, key_id + 1,
                   IF key_id + 1 < num_keys THEN lens[key_id + 2] \div RecordSize ELSE 0)
    ELSE <<key_id, num_records_for_key>>

\* read_page, the loop over the records of the data region: record i goes to
\* the key the lengths assign it to.
RECURSIVE assign_records(_, _, _, _, _, _, _)
assign_records(cache, keys, lens, records, i, key_id, num_records_for_key) ==
    IF i > Len(records) THEN cache
    ELSE LET at == skip_keys(lens, Len(keys), key_id, num_records_for_key)
         IN IF at[2] > 0
            THEN assign_records(cache_push(cache, keys[at[1] + 1], records[i]),
                                keys, lens, records, i + 1, at[1], at[2] - 1)
            ELSE assign_records(cache, keys, lens, records, i + 1, at[1], at[2])

\* the n records stored from word `from` on (1-based)
parse_records(file, from, n) ==
    [i \in 1..n |-> Record(file[from + RecordWords * (i - 1)],
                           float_of_bits(file[from + RecordWords * (i - 1) + 1]))]

\* read_page whose short read leaves m_cache as it is
read_page_keeping_cache(file, p, cache, totals) ==
    LET num_keys == file[p + 1]
        keys == SubSeq(file, p + 2, p + 1 + num_keys)
        lens == SubSeq(file, p + 2 + 2 * num_keys, p + 1 + 3 * num_keys)
        tots == SubSeq(file, p + 2 + 3 * num_keys, p + 1 + 4 * num_keys)
        data_size == SumSeq(lens)
        data_at == p + 2 + 4 * num_keys
        stopped == 8 * (Len(file) - (data_at - 1)) < data_size
        records == parse_records(file, data_at, data_size \div RecordSize)
    IN [cache |-> IF data_size = 0 \/ stopped THEN cache
                  ELSE assign_records(cache, keys, lens, records, 1, 0,
                                      lens[1] \div RecordSize),
        totals |-> totals_put_all(totals, keys, tots, 1),
        next |-> IF stopped THEN Len(file)
                 ELSE p + 1 + 4 * num_keys + data_size \div 8]

\* read_page: the page that starts after `p` words of the file.  Gives the
\* cache and the totals with the page added and the words read so far.  When
\* the file ends before data_size bytes of payload, a read returns no bytes
\* ("Data stopped before end"): m_cache is cleared, the totals stay, and the
\* next read_page finds the end of the file.
read_page(file, p, cache, totals) ==
    LET num_keys == file[p + 1]
        keys == SubSeq(file, p + 2, p + 1 + num_keys)
        lens == SubSeq(file, p + 2 + 2 * num_keys, p + 1 + 3 * num_keys)
        tots == SubSeq(file, p + 2 + 3 * num_keys, p + 1 + 4 * num_keys)
        data_size == SumSeq(lens)
        data_at == p + 2 + 4 * num_keys
        stopped == 8 * (Len(file) - (data_at - 1)) < data_size
        records == parse_records(file, data_at, data_size \div RecordSize)
    IN [cache |-> IF data_size = 0 THEN cache
                  ELSE IF stopped THEN EmptyMap
                  ELSE assign_records(cache, keys, lens, records, 1, 0,
                                      lens[1] \div RecordSize),
        totals |-> totals_put_all(totals, keys, tots, 1),
        next |-> IF stopped THEN Len(file)
                 ELSE p + 1 + 4 * num_keys + data_size \div 8]

\* read_data_to_cache: while (read_page(reader)) {}
RECURSIVE read_pages(_, _, _, _)

\* the loop goes on after the page just read
read_pages_after(file, page) == read_pages(file, page.next, page.cache, page.totals)

read_pages(file, p, cache, totals) ==
    IF p >= Len(file) THEN [cache |-> cache, totals |-> totals]
    ELSE read_pages_after(file, read_page(file, p, cache, totals))

read_data_to_cache(file) ==
    IF file = <<>> THEN [cache |-> EmptyMap, totals |-> EmptyMap]
    ELSE read_pages(file, 0, EmptyMap, EmptyMap)

\* read_append_cache, the loop over the spill: m_cache[key_i].push_back(record_i)
RECURSIVE push_spill(_, _, _, _)
push_spill(cache, keys, records, i) ==
    IF i > Len(records) THEN cache
    ELSE push_spill(cache_push(cache, keys[i], records[i]), keys, records, i + 1)

\* read_append_cache after read_data_to_cache(): the spill is read and pushed
read_spill_to_cache(loaded, spill_keys, spill_records) ==
    [cache |-> push_spill(loaded.cache, spill_keys, spill_records, 1),
     totals |-> loaded.totals]

read_append_cache(file, spill_keys, spill_records) ==
    read_spill_to_cache(read_data_to_cache(file), spill_keys, spill_records)

(***************************************************************************)
(* index_builder: the meta file.                                           *)
(***************************************************************************)
\* read_meta that never loads the registers
read_meta_ignored(meta) == {}

\* read_meta: the registers of the meta file if it can be opened
read_meta(meta) == IF meta.present THEN meta.registers ELSE {}

RECURSIVE insert_all(_, _, _)
insert_all(hll, records, i) ==
    IF i > Len(records) THEN hll
    ELSE insert_all(hll_insert(hll, records[i].value), records, i + 1)

RECURSIVE count_unique_keys(_, _, _)
count_unique_keys(hll, cache, keys) ==
    IF keys = <<>> THEN hll
    ELSE count_unique_keys(insert_all(hll, cache[Head(keys)], 1), cache, Tail(keys))

\* count_unique: every value of m_cache is inserted
count_unique(hll, cache) == count_unique_keys(hll, cache, SortedSeqOf(DOMAIN cache))

\* save_meta
save_meta(hll) == [present |-> TRUE, unique_count |-> hll_size(hll), registers |-> hll]

(***************************************************************************)
(* index_builder: sort_record_list and order_sections_by_value.            *)
(***************************************************************************)
\* std::sort(records.begin(), records.end()): ascending by operator< (m_value).
\* The order of equal records does not show, the sum below is commutative.
sort_by_value(records) == SortSeq(records, LAMBDA a, b : record_lt(a, b))

\* sum_equal with the += left out: equal records are not summed
sum_equal_dropped(records, i, j) == records

\* sort_record_list, "Sum equal elements": i and j count from 1 here
RECURSIVE sum_equal(_, _, _)
sum_equal(records, i, j) ==
    IF ~(i <= Len(records) /\ j <= Len(records)) THEN records
    ELSE IF ~record_eq(records[i], records[j])
         THEN sum_equal(records, j, j + 1)
         ELSE sum_equal([records EXCEPT ![i] = record_plus(records[i], records[j])],
                        i, j + 1)

\* unique that erases nothing
unique_keeps_all(records) == records

\* std::unique + erase: the first of every run of equal records is kept
RECURSIVE unique(_)
unique(records) ==
    IF Len(records) <= 1 THEN records
    ELSE IF record_eq(records[1], records[2])
         THEN unique(<<records[1]>> \o SubSeq(records, 3, Len(records)))
         ELSE <<records[1]>> \o unique(Tail(records))

\* sort_by_score with the comparison turned around (a.m_score < b.m_score)
sort_by_score_ascending(records, ties) ==
    SortSeq(records,
            LAMBDA a, b : \/ a.score < b.score
                          \/ /\ a.score = b.score
                             /\ IF ties = "low_value_first"
                                THEN a.value < b.value
                                ELSE a.value > b.value)

\* std::sort with a.m_score > b.m_score; records of equal score in the tie order
sort_by_score(records, ties) ==
    SortSeq(records,
            LAMBDA a, b : \/ a.score > b.score
                          \/ /\ a.score = b.score
                             /\ IF ties = "low_value_first"
                                THEN a.value < b.value
                                ELSE a.value > b.value)

\* std::sort(results.begin() + start, results.begin() + end)
sort_range(results, start, end) ==
    SubSeq(results, 1, start)
        \o sort_by_value(SubSeq(results, start + 1, end))
        \o SubSeq(results, end + 1, Len(results))

\* order_sections_by_value that stops after its first section
order_first_section_only(results, section) ==
    sort_range(results, 0, Min(ft_max_results_per_section, Len(results)))

\* order_sections_by_value: the loop from `section` on
RECURSIVE order_sections_from(_, _)
order_sections_from(results, section) ==
    IF ~(section < ft_max_sections) THEN results
    ELSE LET start == section * ft_max_results_per_section
             over == start + ft_max_results_per_section > Len(results)
             end == IF over THEN Len(results) ELSE start + ft_max_results_per_section
             sorted == sort_range(results, start, end)
         IN IF over THEN sorted ELSE order_sections_from(sorted, section + 1)

order_sections_by_value(results) == order_sections_from(results, 0)

\* cap_results without the resize
cap_results_missing(records) == records

\* records.resize(max_results) when there are more
cap_results(records) ==
    LET max_results == ft_max_results_per_section * ft_max_sections
    IN IF Len(records) > max_results THEN SubSeq(records, 1, max_results) ELSE records

\* sort_record_list: the list and the m_total_results[key] it sets
sort_record_list(records, ties) ==
    LET deduped == unique(sum_equal(sort_by_value(records), 1, 2))
    IN [records |-> IF Len(deduped) > ft_max_results_per_section
                    THEN order_sections_by_value(cap_results(sort_by_score(deduped, ties)))
                    ELSE deduped,
        total |-> Len(deduped)]

\* sort_cache: sort_record_list on every key of m_cache
sort_cache(cache, totals, ties) ==
    [cache |-> [k \in DOMAIN cache |-> sort_record_list(cache[k], ties).records],
     totals |-> [k \in DOMAIN cache \cup DOMAIN totals |->
                    IF k \in DOMAIN cache THEN sort_record_list(cache[k], ties).total
                    ELSE totals[k]]]

(***************************************************************************)
(* index_builder: save_file, write_page, write_key.                        *)
(***************************************************************************)
use_key_file(H) == H > 0

\* reset_key_file that zeroes the file
reset_key_file_zeroed(H) == [i \in 1..H |-> 0]

\* reset_key_file: H entries of SIZE_MAX
reset_key_file(H) == [i \in 1..H |-> SIZE_MAX]

\* write_key: the entry of slot `key` (counted from 0) is set to page_pos
write_key(keyfile, key, page_pos, H) ==
    IF H > 0 THEN [keyfile EXCEPT ![key + 1] = page_pos] ELSE keyfile

\* save_file, the map `pages`: the slot of a key
page_of(key, H) == IF H > 0 THEN key % H ELSE 0

\* the slots that have a page, ascending (std::map order)
page_slots(cache, H) == SortedSeqOf({page_of(k, H) : k \in DOMAIN cache})

\* the keys of a page, ascending (m_cache is iterated in key order)
page_keys(cache, H, slot) == SortedSeqOf({k \in DOMAIN cache : page_of(k, H) = slot})

\* the words of a list of records
record_words(records) == Concat([i \in 1..Len(records) |->
                                    <<records[i].value, float_bits(records[i].score)>>])

\* v_pos: pos += len for every key
RECURSIVE positions(_, _)
positions(lens, pos) ==
    IF lens = <<>> THEN <<>>
    ELSE <<pos>> \o positions(Tail(lens), pos + Head(lens))

\* write_page: the words the page of `keys` adds to the file
write_page(keys, cache, totals) ==
    LET v_len == [i \in 1..Len(keys) |-> Len(cache[keys[i]]) * RecordSize]
        v_pos == positions(v_len, 0)
        v_tot == [i \in 1..Len(keys) |->
                     IF keys[i] \in DOMAIN totals THEN totals[keys[i]] ELSE 0]
    IN <<Len(keys)>> \o keys \o v_pos \o v_len \o v_tot
           \o Concat([i \in 1..Len(keys) |-> record_words(cache[keys[i]])])

\* the position counted in words instead of bytes
page_pos_in_words(data) == Len(data)

\* the position write_page returns: writer.tellp() before the page is written
page_pos_of(data) == 8 * Len(data)

\* save_file, one turn of the loop over `pages`
save_page(files, slot, cache, totals, H) ==
    [data |-> files.data \o write_page(page_keys(cache, H, slot), cache, totals),
     keys |-> IF use_key_file(H)
              THEN write_key(files.keys, slot, page_pos_of(files.data), H)
              ELSE files.keys]

RECURSIVE save_pages(_, _, _, _, _)
save_pages(files, slots, cache, totals, H) ==
    IF slots = <<>> THEN files
    ELSE save_pages(save_page(files, Head(slots), cache, totals, H),
                    Tail(slots), cache, totals, H)

\* save_file, opening the writers: .data is truncated, .keys (if used) is
\* truncated and reset; without a key file .keys is left as it is
open_files(keyfile, H) ==
    [data |-> <<>>, keys |-> IF use_key_file(H) THEN reset_key_file(H) ELSE keyfile]

save_file(keyfile, cache, totals, H) ==
    save_pages(open_files(keyfile, H), page_slots(cache, H), cache, totals, H)

(***************************************************************************)
(* FullTextShard, the reader: read_keys and find.  A reader is the record  *)
(* of its members, with the key, the result and the outcome (raised or     *)
(* not) of its last find().                                                *)
(***************************************************************************)
\* FullTextShard::m_buffer_len, in bytes (a whole number of records)
reader_buffer_len == 32

\* the ceiling of num_keys read_keys accepts
FULL_TEXT_MAX_KEYS == 8

\* what memory that was never written may hold, as a word: new char[] in the
\* constructor and the local `char buffer[64]` of find are not initialized
UninitWords == {0, RecordSize}

\* the readers the constructor can leave: m_keys_read false, m_buffer not
\* initialized
FreshReaders ==
    {[keys_read |-> FALSE, keys |-> <<>>, pos_start |-> 0, len_start |-> 0,
      data_start |-> 0, buffer |-> [i \in 1..(reader_buffer_len \div 8) |-> w],
      key |-> 0, ret |-> <<>>, raised |-> FALSE] : w \in UninitWords}

\* no reader has been constructed on the shard
NoReader ==
    [keys_read |-> FALSE, keys |-> <<>>, pos_start |-> 0, len_start |-> 0,
     data_start |-> 0, buffer |-> <<>>, key |-> 0, ret |-> <<>>, raised |-> FALSE]

\* seekg(byte); read(buffer, 8): the word read, or what `buffer` held when the
\* stream has failed before or nothing is left to read there
word_at(file, byte, held) ==
    IF byte \div 8 + 1 <= Len(file) THEN file[byte \div 8 + 1] ELSE held

\* read_keys: m_keys_read is set first; a file that is missing or empty gives no
\* keys; a header above the ceiling raises; else the keys of the first page and
\* the starts of the arrays after them
read_keys(r, file) ==
    LET started == [r EXCEPT !.keys_read = TRUE, !.keys = <<>>, !.raised = FALSE]
    IN IF file = <<>> THEN [started EXCEPT !.data_start = 0]
       ELSE LET num_keys == file[1]
                pos_start == 8 + num_keys * 8
                len_start == pos_start + num_keys * 8
            IN IF num_keys > FULL_TEXT_MAX_KEYS
               THEN [started EXCEPT !.raised = TRUE]
               ELSE [started EXCEPT !.keys = Words(file, 2, 1 + num_keys),
                                    !.pos_start = pos_start,
                                    !.len_start = len_start,
                                    !.data_start = len_start + num_keys * 8]

\* std::lower_bound on the sorted m_keys: the first position (from 0) whose key
\* is not less than `key`; Len(keys) when there is none
lower_bound(keys, key) ==
    LET at == {i \in 1..Len(keys) : keys[i] >= key}
    IN IF at = {} THEN Len(keys)
       ELSE (CHOOSE i \in at : \A j \in at : i <= j) - 1

\* reader.read(m_buffer, read_len): the words read replace the start of m_buffer,
\* a read that ends at the end of the file leaves the rest as it was
read_into(buffer, file, byte, read_len) ==
    [i \in 1..Len(buffer) |->
        IF i <= read_len \div 8 /\ byte \div 8 + i <= Len(file)
        THEN file[byte \div 8 + i]
        ELSE buffer[i]]

\* the records find takes from m_buffer: a uint64_t value and the uint32_t at
\* FULL_TEXT_KEY_LEN (the low half of the second word, which is all of it for
\* the words that occur), converted to float as the number it is
buffer_records(buffer, n) ==
    [i \in 1..n |-> Record(buffer[RecordWords * (i - 1) + 1],
                           buffer[RecordWords * (i - 1) + 2])]

\* find, the loop `while (read_bytes < len)`: the list and m_buffer at its end.
\* A length that is not one (a word of another kind read in its place) is
\* followed for MaxFindBytes bytes only.
RECURSIVE find_loop(_, _, _, _, _, _)
find_loop(file, buffer, byte, read_bytes, len, ret) ==
    IF ~(read_bytes < len) \/ read_bytes >= MaxFindBytes
    THEN [ret |-> ret, buffer |-> buffer]
    ELSE LET read_len == Min(reader_buffer_len, len)
             filled == read_into(buffer, file, byte, read_len)
             num_records == read_len \div RecordSize
         IN find_loop(file, filled, byte + read_len, read_bytes + read_len, len,
                      ret \o buffer_records(filled, num_records))

\* find(key) of reader r on the file; `uninit` is what the local buffer holds
\* at first.  Once a read has failed the stream stays failed: the later seeks
\* and reads do nothing.
find(r, file, key, uninit) ==
    LET r1 == IF r.keys_read THEN [r EXCEPT !.raised = FALSE] ELSE read_keys(r, file)
        key_pos == lower_bound(r1.keys, key)
    IN IF r1.raised \/ key_pos = Len(r1.keys) \/ r1.keys[key_pos + 1] > key
       THEN [r1 EXCEPT !.key = key, !.ret = <<>>]
       ELSE LET pos_at == r1.pos_start + key_pos * 8
                len_at == r1.len_start + key_pos * 8
                pos == word_at(file, pos_at, uninit)
                pos_read == pos_at \div 8 + 1 <= Len(file)
                len == IF pos_read THEN word_at(file, len_at, pos) ELSE pos
                len_read == pos_read /\ len_at \div 8 + 1 <= Len(file)
                out == find_loop(IF len_read THEN file ELSE <<>>, r1.buffer,
                                 r1.data_start + pos, 0, len, <<>>)
            IN [r1 EXCEPT !.key = key, !.ret = out.ret, !.buffer = out.buffer]

(***************************************************************************)
(* merge() as a whole: what it leaves in memory and in the files.          *)
(***************************************************************************)
\* read_append_cache(); read_meta(hll); count_unique(hll); sort_cache()
\* read_meta(hll); count_unique(hll); sort_cache() on the cache as loaded
\* what merge() holds in memory before save_file()
merged_memory(sorted, hll) ==
    [cache |-> sorted.cache, totals |-> sorted.totals, hll |-> hll]

count_and_sort(loaded, meta, ties) ==
    merged_memory(sort_cache(loaded.cache, loaded.totals, ties),
                  count_unique(read_meta(meta), loaded.cache))

merge_in_memory(data, spill_keys, spill_records, meta, ties) ==
    count_and_sort(read_append_cache(data, spill_keys, spill_records), meta, ties)

\* ... save_file(); save_meta(hll)
\* what merge() leaves: the files and m_total_results
merged_shard(files, meta, totals) ==
    [data |-> files.data, keys |-> files.keys, meta |-> meta, totals |-> totals]

save_merged(mem, keyfile, H) ==
    merged_shard(save_file(keyfile, mem.cache, mem.totals, H), save_meta(mem.hll),
                 mem.totals)

merge_files(data, keyfile, spill_keys, spill_records, meta, H, ties) ==
    save_merged(merge_in_memory(data, spill_keys, spill_records, meta, ties),
                keyfile, H)

(***************************************************************************)
(* The shard a builder is constructed on: none yet, or the one an earlier  *)
(* batch left (add of InitValues records for key 1 and of one for key 2,   *)
(* append, merge).                                                         *)
(***************************************************************************)
InitBatchKeys == [i \in 1..InitValues |-> 1] \o <<2>>

InitBatch == [i \in 1..InitValues |-> Record(i, ScoreOf(i))] \o <<Record(1, ScoreOf(1))>>

EarlierShard(H, ties) ==
    merge_files(<<>>, <<>>, InitBatchKeys, InitBatch, NoMeta, H, ties)

\* the keys and the records of a sequence of (key, record) pairs
KeysOf(pairs) == [i \in DOMAIN pairs |-> pairs[i][1]]

RecordsOf(pairs) == [i \in DOMAIN pairs |-> pairs[i][2]]

\* nothing added yet
NoneAdded == [pending |-> <<>>, spilled |-> <<>>]

\* no merge() is running
NoMerge == [running |-> FALSE, data |-> <<>>, keys |-> <<>>, meta |-> NoMeta,
            spill_keys |-> <<>>, spill_records |-> <<>>]

NoShard == [data |-> <<>>, keys |-> <<>>, meta |-> NoMeta, totals |-> EmptyMap]

Init ==
    /\ m_hash_table_size \in {0, HashTableSize}
    /\ sort_ties \in TieOrders
    /\ \E shard \in {NoShard, EarlierShard(m_hash_table_size, sort_ties)} :
          /\ data_file = shard.data
          /\ key_file = shard.keys
          /\ meta_file = shard.meta
    /\ m_keys = <<>>
    /\ m_records = <<>>
    /\ m_cache = EmptyMap
    /\ m_total_results = EmptyMap
    /\ key_cache_file = <<>>
    /\ cache_file = <<>>
    /\ merge_hll = {}
    /\ merge_pages = <<>>
    /\ merge_from = NoMerge
    /\ added = NoneAdded
    /\ reader = NoReader
    /\ pc = "idle"
    /\ n_adds = 0
    /\ hyper_ball_not_called
    /\ console_not_called
    /\ run_not_called
    /\ rest_not_called

(***************************************************************************)
(* The operations of index_builder.                                        *)
(***************************************************************************)
add(key, record) ==
    /\ pc = "idle"
    /\ n_adds < MaxAdds
    /\ m_keys' = Append(m_keys, key)
    /\ m_records' = Append(m_records, record)
    /\ n_adds' = n_adds + 1
    /\ added' = [added EXCEPT !.pending = Append(@, <<key, record>>)]
    /\ UNCHANGED <<other_vars, m_hash_table_size, sort_ties, reader, m_cache, m_total_results,
                   key_cache_file, cache_file, data_file, key_file, meta_file,
                   merge_hll, merge_pages, merge_from, pc>>

\* append that leaves m_keys as it is
append_keeping_keys ==
    /\ pc = "idle"
    /\ cache_file' = cache_file \o m_records
    /\ key_cache_file' = key_cache_file \o m_keys
    /\ m_records' = <<>>
    /\ added' = [pending |-> <<>>, spilled |-> added.spilled \o added.pending]
    /\ UNCHANGED <<other_vars, m_hash_table_size, sort_ties, reader, m_keys, m_cache,
                   m_total_results, data_file, key_file, meta_file, merge_hll,
                   merge_pages, merge_from, pc, n_adds>>

append ==
    /\ pc = "idle"
    /\ cache_file' = cache_file \o m_records
    /\ key_cache_file' = key_cache_file \o m_keys
    /\ m_records' = <<>>
    /\ m_keys' = <<>>
    /\ added' = [pending |-> <<>>, spilled |-> added.spilled \o added.pending]
    /\ UNCHANGED <<other_vars, m_hash_table_size, sort_ties, reader, m_cache, m_total_results,
                   data_file, key_file, meta_file, merge_hll, merge_pages,
                   merge_from, pc, n_adds>>

\* truncate_cache_files that truncates the target file as well
truncate_cache_files_and_target ==
    /\ pc = "idle"
    /\ m_cache' = EmptyMap
    /\ cache_file' = <<>>
    /\ key_cache_file' = <<>>
    /\ data_file' = <<>>
    /\ added' = [added EXCEPT !.spilled = <<>>]
    /\ UNCHANGED <<other_vars, m_hash_table_size, sort_ties, reader, m_keys, m_records,
                   m_total_results, key_file, meta_file, merge_hll, merge_pages,
                   merge_from, pc, n_adds>>

\* truncate_cache_files: m_cache.clear() and both spill files truncated
truncate_cache_files ==
    /\ pc = "idle"
    /\ m_cache' = EmptyMap
    /\ cache_file' = <<>>
    /\ key_cache_file' = <<>>
    /\ added' = [added EXCEPT !.spilled = <<>>]
    /\ UNCHANGED <<other_vars, m_hash_table_size, sort_ties, reader, m_keys, m_records, m_total_results,
                   data_file, key_file, meta_file, merge_hll, merge_pages,
                   merge_from, pc, n_adds>>

\* truncate: truncate_cache_files() and the target file truncated
truncate ==
    /\ pc = "idle"
    /\ m_cache' = EmptyMap
    /\ cache_file' = <<>>
    /\ key_cache_file' = <<>>
    /\ added' = [added EXCEPT !.spilled = <<>>]
    /\ data_file' = <<>>
    /\ UNCHANGED <<other_vars, m_hash_table_size, sort_ties, reader, m_keys, m_records, m_total_results,
                   key_file, meta_file, merge_hll, merge_pages, merge_from, pc,
                   n_adds>>

\* a merge that takes the records still in m_keys / m_records with it
merge_with_pending ==
    /\ pc = "idle"
    /\ LET out == merge_files(data_file, key_file, key_cache_file \o m_keys,
                              cache_file \o m_records, meta_file, m_hash_table_size,
                              sort_ties)
       IN /\ data_file' = out.data
          /\ key_file' = out.keys
          /\ meta_file' = out.meta
          /\ m_total_results' = out.totals
    /\ m_cache' = EmptyMap
    /\ cache_file' = <<>>
    /\ key_cache_file' = <<>>
    /\ m_keys' = <<>>
    /\ m_records' = <<>>
    /\ added' = NoneAdded
    /\ UNCHANGED <<other_vars, m_hash_table_size, sort_ties, reader, merge_hll, merge_pages,
                   merge_from, pc, n_adds>>

\* merge, from the call to the return
merge ==
    /\ pc = "idle"
    /\ LET out == merge_files(data_file, key_file, key_cache_file, cache_file,
                              meta_file, m_hash_table_size, sort_ties)
       IN /\ data_file' = out.data
          /\ key_file' = out.keys
          /\ meta_file' = out.meta
          /\ m_total_results' = out.totals
    /\ m_cache' = EmptyMap
    /\ cache_file' = <<>>
    /\ key_cache_file' = <<>>
    /\ added' = [added EXCEPT !.spilled = <<>>]
    /\ UNCHANGED <<other_vars, m_hash_table_size, sort_ties, reader, m_keys, m_records, merge_hll, merge_pages,
                   merge_from, pc, n_adds>>

Next ==
    \/ \E in \in Inputs : add(in[1], in[2])
    \/ append
    \/ merge
    \/ truncate
    \/ truncate_cache_files

Spec == Init /\ [][Next]_vars

(***************************************************************************)
(* merge() statement by statement, as an observer of the files sees it:    *)
(* the in-memory part, the opening of the writers in save_file, one turn   *)
(* of save_file's loop per step, save_meta, truncate_cache_files.          *)
(***************************************************************************)
\* read_append_cache(); read_meta(hll); count_unique(hll); sort_cache()
merge_begin ==
    /\ pc = "idle"
    /\ LET mem == merge_in_memory(data_file, key_cache_file, cache_file, meta_file,
                                  sort_ties)
       IN /\ m_cache' = mem.cache
          /\ m_total_results' = mem.totals
          /\ merge_hll' = mem.hll
    /\ merge_from' = [running |-> TRUE, data |-> data_file, keys |-> key_file,
                      meta |-> meta_file, spill_keys |-> key_cache_file,
                      spill_records |-> cache_file]
    /\ pc' = "loaded"
    /\ UNCHANGED <<other_vars, m_hash_table_size, sort_ties, reader, m_keys, m_records, key_cache_file,
                   cache_file, data_file, key_file, meta_file, merge_pages, n_adds, added>>

\* save_file: both writers opened with std::ios::trunc, reset_key_file, `pages`
merge_open ==
    /\ pc = "loaded"
    /\ LET files == open_files(key_file, m_hash_table_size)
       IN /\ data_file' = files.data
          /\ key_file' = files.keys
    /\ merge_pages' = page_slots(m_cache, m_hash_table_size)
    /\ pc' = "pages"
    /\ UNCHANGED <<other_vars, m_hash_table_size, sort_ties, reader, m_keys, m_records, m_cache,
                   m_total_results, key_cache_file, cache_file, meta_file, merge_hll,
                   merge_from, n_adds, added>>

\* save_file: one turn of `for (const auto &iter : pages)`
merge_write_page ==
    /\ pc = "pages"
    /\ merge_pages # <<>>
    /\ LET files == save_page([data |-> data_file, keys |-> key_file],
                              Head(merge_pages), m_cache, m_total_results,
                              m_hash_table_size)
       IN /\ data_file' = files.data
          /\ key_file' = files.keys
    /\ merge_pages' = Tail(merge_pages)
    /\ UNCHANGED <<other_vars, m_hash_table_size, sort_ties, reader, m_keys, m_records, m_cache,
                   m_total_results, key_cache_file, cache_file, meta_file, merge_hll,
                   merge_from, pc, n_adds, added>>

\* save_meta(hll)
merge_save_meta ==
    /\ pc = "pages"
    /\ merge_pages = <<>>
    /\ meta_file' = save_meta(merge_hll)
    /\ pc' = "meta_saved"
    /\ UNCHANGED <<other_vars, m_hash_table_size, sort_ties, reader, m_keys, m_records, m_cache,
                   m_total_results, key_cache_file, cache_file, data_file, key_file,
                   merge_hll, merge_pages, merge_from, n_adds, added>>

\* truncate_cache_files(), and merge() returns
merge_truncate_cache ==
    /\ pc = "meta_saved"
    /\ m_cache' = EmptyMap
    /\ cache_file' = <<>>
    /\ key_cache_file' = <<>>
    /\ added' = [added EXCEPT !.spilled = <<>>]
    /\ merge_hll' = {}
    /\ merge_from' = NoMerge
    /\ pc' = "idle"
    /\ UNCHANGED <<other_vars, m_hash_table_size, sort_ties, reader, m_keys, m_records, m_total_results,
                   data_file, key_file, meta_file, merge_pages, n_adds>>

NextSteps ==
    \/ \E in \in Inputs : add(in[1], in[2])
    \/ append
    \/ truncate
    \/ truncate_cache_files
    \/ merge_begin
    \/ merge_open
    \/ merge_write_page
    \/ merge_save_meta
    \/ merge_truncate_cache

SpecSteps == Init /\ [][NextSteps]_vars

(***************************************************************************)
(* A reader on the shard.  The builder's side is taken in whole rebuilds:  *)
(* the files removed, then add() of a batch, append() and merge(), as one  *)
(* step; another step puts a file in place that no builder wrote.          *)
(***************************************************************************)
\* the batches of a rebuild: nothing, one add, and key 1 with InitValues values
\* (a list longer than the reader's buffer)
ReaderBatches ==
    {<<>>} \cup {<<a>> : a \in Inputs}
        \cup {[i \in 1..InitValues |-> <<1, Record(i, ScoreOf(i))>>]}

\* files with a header no builder of this model writes: num_keys above the
\* ceiling
ForeignFiles == {<<FULL_TEXT_MAX_KEYS + 1>>}

\* the constructor of FullTextShard
reader_open ==
    /\ pc = "idle"
    /\ reader' \in FreshReaders
    /\ UNCHANGED <<other_vars, m_hash_table_size, sort_ties, m_keys, m_records, m_cache,
                   m_total_results, key_cache_file, cache_file, data_file, key_file,
                   meta_file, merge_hll, merge_pages, merge_from, added, pc, n_adds>>

\* FullTextShard::find(key)
reader_find(key, uninit) ==
    /\ pc = "idle"
    /\ reader # NoReader
    /\ reader' = find(reader, data_file, key, uninit)
    /\ UNCHANGED <<other_vars, m_hash_table_size, sort_ties, m_keys, m_records, m_cache,
                   m_total_results, key_cache_file, cache_file, data_file, key_file,
                   meta_file, merge_hll, merge_pages, merge_from, added, pc, n_adds>>

\* what add() for every pair of a batch, append() and merge() leave where no
\* file of the shard exists, by hash table size, order of equal scores and batch
BuiltShard ==
    [H \in {0, HashTableSize}, ties \in TieOrders, batch \in ReaderBatches |->
        merge_files(<<>>, <<>>, KeysOf(batch), RecordsOf(batch), NoMeta, H, ties)]

\* the files of the shard removed; add() for every pair of the batch; append();
\* merge()
rebuild(batch) ==
    /\ pc = "idle"
    /\ LET out == BuiltShard[m_hash_table_size, sort_ties, batch]
       IN /\ data_file' = out.data
          /\ key_file' = out.keys
          /\ meta_file' = out.meta
          /\ m_total_results' = out.totals
    /\ m_keys' = <<>>
    /\ m_records' = <<>>
    /\ m_cache' = EmptyMap
    /\ cache_file' = <<>>
    /\ key_cache_file' = <<>>
    /\ added' = NoneAdded
    /\ UNCHANGED <<other_vars, m_hash_table_size, sort_ties, reader, merge_hll, merge_pages,
                   merge_from, pc, n_adds>>

\* the shard file is replaced by one that no builder wrote
foreign_file ==
    /\ pc = "idle"
    /\ data_file' \in ForeignFiles
    /\ UNCHANGED <<other_vars, m_hash_table_size, sort_ties, reader, m_keys, m_records, m_cache,
                   m_total_results, key_cache_file, cache_file, key_file, meta_file,
                   merge_hll, merge_pages, merge_from, added, pc, n_adds>>

NextReader ==
    \/ reader_open
    \/ \E key \in Keys, uninit \in UninitWords : reader_find(key, uninit)
    \/ \E batch \in ReaderBatches : rebuild(batch)
    \/ foreign_file

SpecReader == Init /\ [][NextReader]_vars

(***************************************************************************)
(* What the claims speak of.                                               *)
(***************************************************************************)
\* the posting lists and totals stored in .data, page after page
Stored == read_data_to_cache(data_file)

\* the posting list a .data file holds for key k
ListIn(file, k) ==
    LET cache == read_data_to_cache(file).cache
    IN IF k \in DOMAIN cache THEN cache[k] ELSE <<>>

StoredList(k) == ListIn(data_file, k)

StoredKeys == DOMAIN Stored.cache

\* the records of the spill that were added with key k, in file order
RECURSIVE SpillOf(_, _, _)
SpillOf(k, keys, records) ==
    IF records = <<>> THEN <<>>
    ELSE (IF Head(keys) = k THEN <<Head(records)>> ELSE <<>>)
             \o SpillOf(k, Tail(keys), Tail(records))

\* everything a merge() folds for key k: the list in .data and the spill
Folded(k) == StoredList(k) \o SpillOf(k, key_cache_file, cache_file)

RECURSIVE ScoreSumFrom(_, _, _)
ScoreSumFrom(records, v, i) ==
    IF i > Len(records) THEN 0
    ELSE (IF records[i].value = v THEN records[i].score ELSE 0)
             + ScoreSumFrom(records, v, i + 1)

\* the sum of the scores of the records of value v
ScoreSum(records, v) == ScoreSumFrom(records, v, 1)

ValuesIn(records) == {records[i].value : i \in DOMAIN records}

\* one record per distinct value, its score the sum over the records of it
SumDedup(records) ==
    UNION {{Record(v, ScoreSum(recs, v)) : v \in ValuesIn(recs)} : recs \in {records}}

\* the records of a set with distinct values, ascending by value
Ascending(recs) ==
    LET vs == SortedSeqOf({r.value : r \in recs})
    IN [i \in 1..Len(vs) |-> CHOOSE r \in recs : r.value = vs[i]]

RecordSet(records) == {records[i] : i \in DOMAIN records}

MaxResults == ft_max_sections * ft_max_results_per_section

SpillEmpty == cache_file = <<>> /\ key_cache_file = <<>>

\* the byte offsets at which the pages of a .data file start
RECURSIVE PageStarts(_, _)
PageStarts(file, p) ==
    IF p >= Len(file) THEN {}
    ELSE LET n == file[p + 1]
             lens == SubSeq(file, p + 2 + 2 * n, p + 1 + 3 * n)
         IN {8 * p} \cup PageStarts(file, p + 1 + 4 * n + SumSeq(lens) \div 8)

\* the key array of the page at a byte offset
PageKeysAt(file, offset) ==
    LET p == offset \div 8
    IN SubSeq(file, p + 2, p + 1 + file[p + 1])

\* the keys a merge() folds: those of .data and those of the spill
MergedKeys == StoredKeys \cup {key_cache_file[i] : i \in DOMAIN key_cache_file}

(***************************************************************************)
(* merge() when an allocation or the opening of a file fails, and on a     *)
(* .data whose payload stops before the length its header declares.        *)
(***************************************************************************)
\* new char[] throws std::bad_alloc: m_buffer in read_data_to_cache, buffer or
\* key_buffer in read_append_cache
AllocFaults == {"bad_alloc_data", "bad_alloc_spill"}

\* is_open() is false: the two spill files in read_append_cache, the target
\* file and the key file in save_file
OpenFaults == {"open_cache", "open_key_cache", "open_target", "open_keys"}

\* read_append_cache under a fault: a failed allocation in read_data_to_cache
\* returns with nothing loaded and the spill is read all the same; a failed
\* allocation for the spill returns with .data loaded; a spill file that cannot
\* be opened throws after .data was loaded
read_append_cache_fault(file, spill_keys, spill_records, fault) ==
    LET loaded == IF fault = "bad_alloc_data"
                  THEN [cache |-> EmptyMap, totals |-> EmptyMap]
                  ELSE read_data_to_cache(file)
    IN IF fault \in {"bad_alloc_spill", "open_cache", "open_key_cache"}
       THEN loaded
       ELSE [cache |-> push_spill(loaded.cache, spill_keys, spill_records, 1),
             totals |-> loaded.totals]

\* merge() with one fault
merge_fault(fault) ==
    /\ pc = "idle"
    /\ fault = "bad_alloc_data" => data_file # <<>>
    /\ fault = "open_keys" => use_key_file(m_hash_table_size)
    /\ LET loaded == read_append_cache_fault(data_file, key_cache_file, cache_file,
                                             fault)
           sorted == sort_cache(loaded.cache, loaded.totals, sort_ties)
           files == save_file(key_file, sorted.cache, sorted.totals,
                              m_hash_table_size)
       IN IF fault \in {"open_cache", "open_key_cache"}
          THEN \* thrown by read_append_cache
               /\ m_cache' = loaded.cache
               /\ m_total_results' = loaded.totals
               /\ UNCHANGED <<data_file, key_file, meta_file, cache_file,
                              key_cache_file, added>>
          ELSE IF fault \in {"open_target", "open_keys"}
          THEN \* thrown by save_file, the key file after the target file was
               \* opened with std::ios::trunc
               /\ m_cache' = sorted.cache
               /\ m_total_results' = sorted.totals
               /\ data_file' = IF fault = "open_keys" THEN <<>> ELSE data_file
               /\ UNCHANGED <<key_file, meta_file, cache_file, key_cache_file, added>>
          ELSE \* a failed allocation is logged and merge() goes on
               /\ m_cache' = EmptyMap
               /\ m_total_results' = sorted.totals
               /\ data_file' = files.data
               /\ key_file' = files.keys
               /\ meta_file' = save_meta(count_unique(read_meta(meta_file),
                                                      loaded.cache))
               /\ cache_file' = <<>>
               /\ key_cache_file' = <<>>
               /\ added' = [added EXCEPT !.spilled = <<>>]
    /\ UNCHANGED <<other_vars, m_hash_table_size, sort_ties, reader, m_keys, m_records, merge_hll,
                   merge_pages, merge_from, pc, n_adds>>

\* the word at which the payload of the last page of a .data file starts
LastPayloadAt(file) ==
    LET start == CHOOSE b \in PageStarts(file, 0) :
                     \A c \in PageStarts(file, 0) : c <= b
    IN start \div 8 + 2 + 4 * file[start \div 8 + 1]

\* a .data file whose last page has lost the end of its payload: a read in its
\* data region returns no bytes before the declared length is reached
DataStopped(file) ==
    /\ file # <<>>
    /\ LET at == LastPayloadAt(file)
           start == CHOOSE b \in PageStarts(file, 0) :
                        \A c \in PageStarts(file, 0) : c <= b
           n == file[start \div 8 + 1]
           lens == SubSeq(file, start \div 8 + 2 + 2 * n, start \div 8 + 1 + 3 * n)
       IN 8 * (Len(file) - (at - 1)) < SumSeq(lens)

\* the end of the payload of the last page is lost (a write that did not
\* complete): the header arrays stay whole, and the file ends right after them
\* or one word before its end
cut_payload ==
    /\ pc = "idle"
    /\ data_file # <<>>
    /\ ~DataStopped(data_file)
    /\ \E n \in {LastPayloadAt(data_file) - 1, Len(data_file) - 1} :
          data_file' = SubSeq(data_file, 1, n)
    /\ UNCHANGED <<other_vars, m_hash_table_size, sort_ties, reader, m_keys, m_records, m_cache,
                   m_total_results, key_cache_file, cache_file, key_file, meta_file,
                   merge_hll, merge_pages, merge_from, added, pc, n_adds>>

NextFaults ==
    \/ \E in \in Inputs : add(in[1], in[2])
    \/ append
    \/ merge
    \/ \E fault \in AllocFaults \cup OpenFaults : merge_fault(fault)
    \/ cut_payload

SpecFaults == Init /\ [][NextFaults]_vars

(***************************************************************************)
(* algorithm::hyper_ball.  A counter (hyper_log_log) is the set of the      *)
(* values inserted, harmonic is kept in units of 1 / HarmonicScale.  A      *)
(* thread of a round takes one step for every statement that reads or       *)
(* writes a counter.                                                        *)
(***************************************************************************)
\* std::min(12, (int)n)
hb_max_threads == 12

\* if (t > 40.0) break
hb_last_t == 40

\* 1.0 / (t + 1.0), for t + 1 in 1..4, is a whole number of these units
HarmonicScale == 12

\* the graph 0 -> 1 -> 2 -> 3
PathGraph == <<<<1>>, <<2>>, <<3>>, <<>>>>

\* the graphs hyper_ball is called with: the path, one vertex, a cycle of two,
\* a vertex with two edges into a vertex with a loop
Graphs == {PathGraph, <<<<>>>>, <<<<1>>, <<0>>>>, <<<<1, 1>>, <<1>>>>}

\* a round is over with the comparison of t against 40.0 turned into >=
last_round_done_at_40(t) == t >= hb_last_t

\* t += 1.0; if (t > 40.0) break
last_round_done(t) == t > hb_last_t

\* no shard is built or read
no_shard ==
    /\ m_hash_table_size = 0
    /\ sort_ties = "low_value_first"
    /\ m_keys = <<>>
    /\ m_records = <<>>
    /\ m_cache = EmptyMap
    /\ m_total_results = EmptyMap
    /\ key_cache_file = <<>>
    /\ cache_file = <<>>
    /\ data_file = <<>>
    /\ key_file = <<>>
    /\ meta_file = NoMeta
    /\ merge_hll = {}
    /\ merge_pages = <<>>
    /\ merge_from = NoMerge
    /\ added = NoneAdded
    /\ reader = NoReader
    /\ pc = "idle"
    /\ n_adds = 0

\* hyper_log_log::operator+=
hll_union(x, y) == x \cup y

num_threads == Min(hb_max_threads, hb_n)

items_per_thread == hb_n \div num_threads

v_begin(i) == i * items_per_thread

\* the end of a range with the last thread treated like the others
v_end_even(i) == (i + 1) * items_per_thread

v_end(i) == IF i = num_threads - 1 THEN hb_n ELSE (i + 1) * items_per_thread

\* the vertices of thread i
slice(i) == v_begin(i)..(v_end(i) - 1)

\* the counter c[w] as a thread can read it: while the owner of w is at its
\* `c[w] = a[w]` the read races with the write and gets any mix of the two
read_c(w) ==
    IF \E j \in DOMAIN hb_threads : hb_threads[j].pc = "store" /\ hb_threads[j].v = w
    THEN {hll_union(hb_c[w], part) : part \in SUBSET (hb_a[w] \ hb_c[w])}
    ELSE {hb_c[w]}

\* the gain that forgets to subtract the count of c[v]
harmonic_gain_of_a(t, a_v, c_v) == (HarmonicScale * hll_size(a_v)) \div (t + 1)

\* (1.0 / (t + 1.0)) * (a[v].count() - c[v].count())
harmonic_gain(t, a_v, c_v) ==
    (HarmonicScale * (hll_size(a_v) - hll_size(c_v))) \div (t + 1)

\* the call hyper_ball(n, edge_map), up to the loop
InitHyperBall ==
    /\ no_shard
    /\ console_not_called
    /\ run_not_called
    /\ rest_not_called
    /\ hb_edge_map \in Graphs
    /\ hb_n = Len(hb_edge_map)
    /\ hb_c = [v \in 0..(hb_n - 1) |-> hll_insert({}, v)]
    /\ hb_a = [v \in 0..(hb_n - 1) |-> {}]
    /\ hb_harmonic = [v \in 0..(hb_n - 1) |-> 0]
    /\ hb_t = 0
    /\ hb_threads = <<>>
    /\ hb_pc = "loop"
    /\ hb_c_start = hb_c
    /\ hb_rounds = 0

\* the threads of a round are started
hyper_ball_spawn ==
    /\ hb_pc = "loop"
    /\ hb_threads' = [i \in 0..(num_threads - 1) |->
                         [pc |-> "copy", v |-> v_begin(i), e |-> 1]]
    /\ hb_c_start' = hb_c
    /\ hb_pc' = "join"
    /\ UNCHANGED <<shard_vars, console_vars, runner_vars, rest_vars,
                   hb_n, hb_edge_map, hb_c, hb_a, hb_harmonic, hb_t,
                   hb_rounds>>

\* hyper_ball_worker: a[v] = c[v]
worker_copy(i) ==
    /\ hb_pc = "join"
    /\ i \in DOMAIN hb_threads
    /\ hb_threads[i].pc = "copy"
    /\ hb_a' = [hb_a EXCEPT ![hb_threads[i].v] = hb_c[hb_threads[i].v]]
    /\ hb_threads' = [hb_threads EXCEPT ![i].pc = "add", ![i].e = 1]
    /\ UNCHANGED <<shard_vars, console_vars, runner_vars, rest_vars,
                   hb_n, hb_edge_map, hb_c, hb_harmonic, hb_t, hb_pc,
                   hb_c_start, hb_rounds>>

\* hyper_ball_worker: a[v] += c[w] for the next w of edge_map[v]
worker_add(i) ==
    /\ hb_pc = "join"
    /\ i \in DOMAIN hb_threads
    /\ hb_threads[i].pc = "add"
    /\ hb_threads[i].e <= Len(hb_edge_map[hb_threads[i].v + 1])
    /\ \E seen \in read_c(hb_edge_map[hb_threads[i].v + 1][hb_threads[i].e]) :
          hb_a' = [hb_a EXCEPT ![hb_threads[i].v] = hll_union(@, seen)]
    /\ hb_threads' = [hb_threads EXCEPT ![i].e = @ + 1]
    /\ UNCHANGED <<shard_vars, console_vars, runner_vars, rest_vars,
                   hb_n, hb_edge_map, hb_c, hb_harmonic, hb_t, hb_pc,
                   hb_c_start, hb_rounds>>

\* hyper_ball_worker: harmonic[v] += ..., and on to the next v or to the
\* second loop
worker_harmonic(i) ==
    /\ hb_pc = "join"
    /\ i \in DOMAIN hb_threads
    /\ hb_threads[i].pc = "add"
    /\ hb_threads[i].e > Len(hb_edge_map[hb_threads[i].v + 1])
    /\ hb_harmonic' = [hb_harmonic EXCEPT ![hb_threads[i].v] =
                          @ + harmonic_gain(hb_t, hb_a[hb_threads[i].v],
                                            hb_c[hb_threads[i].v])]
    /\ hb_threads' = [hb_threads EXCEPT ![i] =
                         IF hb_threads[i].v + 1 < v_end(i)
                         THEN [pc |-> "copy", v |-> hb_threads[i].v + 1, e |-> 1]
                         ELSE [pc |-> "store", v |-> v_begin(i), e |-> 1]]
    /\ UNCHANGED <<shard_vars, console_vars, runner_vars, rest_vars,
                   hb_n, hb_edge_map, hb_c, hb_a, hb_t, hb_pc,
                   hb_c_start, hb_rounds>>

\* hyper_ball_worker, the second loop: c[v] = a[v]
worker_store(i) ==
    /\ hb_pc = "join"
    /\ i \in DOMAIN hb_threads
    /\ hb_threads[i].pc = "store"
    /\ hb_c' = [hb_c EXCEPT ![hb_threads[i].v] = hb_a[hb_threads[i].v]]
    /\ hb_threads' = [hb_threads EXCEPT ![i] =
                         IF hb_threads[i].v + 1 < v_end(i)
                         THEN [pc |-> "store", v |-> hb_threads[i].v + 1, e |-> 1]
                         ELSE [pc |-> "done", v |-> v_end(i), e |-> 1]]
    /\ UNCHANGED <<shard_vars, console_vars, runner_vars, rest_vars,
                   hb_n, hb_edge_map, hb_a, hb_harmonic, hb_t, hb_pc,
                   hb_c_start, hb_rounds>>

\* every thread is joined; t += 1.0; if (t > 40.0) break; return harmonic
hyper_ball_join ==
    /\ hb_pc = "join"
    /\ \A i \in DOMAIN hb_threads : hb_threads[i].pc = "done"
    /\ hb_t' = hb_t + 1
    /\ hb_rounds' = hb_rounds + 1
    /\ hb_pc' = IF last_round_done(hb_t + 1) THEN "returned" ELSE "loop"
    /\ hb_threads' = <<>>
    /\ UNCHANGED <<shard_vars, console_vars, runner_vars, rest_vars,
                   hb_n, hb_edge_map, hb_c, hb_a, hb_harmonic, hb_c_start>>

NextHyperBall ==
    \/ hyper_ball_spawn
    \/ \E i \in 0..(hb_max_threads - 1) : worker_copy(i)
    \/ \E i \in 0..(hb_max_threads - 1) : worker_add(i)
    \/ \E i \in 0..(hb_max_threads - 1) : worker_harmonic(i)
    \/ \E i \in 0..(hb_max_threads - 1) : worker_store(i)
    \/ hyper_ball_join

SpecHyperBall == InitHyperBall /\ [][NextHyperBall]_vars

\* every thread that can take a step takes one, and so does hyper_ball
FairHyperBall == SpecHyperBall /\ WF_vars(NextHyperBall)

(***************************************************************************)
(* The call of hyper_ball itself, for any number of vertices from 0 on and   *)
(* a graph without edges: the lines before the loop and the making of the   *)
(* threads of a round.  With n = 0 a round has no thread and the loop runs   *)
(* to its end; with more vertices the threads are made and left where they  *)
(* start.                                                                   *)
(***************************************************************************)
\* the most vertices hyper_ball is called with here
MaxVertices == 30

\* what `n / num_threads` does to the call: the division of two size_t by
\* zero is undefined; the processor traps, or the call goes on
DivisionOutcomes(n) == IF Min(hb_max_threads, n) = 0 THEN {"fault", "loop"} ELSE {"loop"}

\* hyper_ball(n, edge_map) is called
InitHyperBallCall ==
    /\ no_shard
    /\ console_not_called
    /\ run_not_called
    /\ rest_not_called
    /\ hb_n \in 0..MaxVertices
    /\ hb_edge_map = [v \in 1..hb_n |-> <<>>]
    /\ hb_c = <<>>
    /\ hb_a = <<>>
    /\ hb_harmonic = <<>>
    /\ hb_t = 0
    /\ hb_threads = <<>>
    /\ hb_pc = "call"
    /\ hb_c_start = <<>>
    /\ hb_rounds = 0

\* num_threads, items_per_thread, c, a, harmonic, c[v].insert(v), t = 0.0
hyper_ball_enter ==
    /\ hb_pc = "call"
    /\ hb_pc' \in DivisionOutcomes(hb_n)
    /\ hb_c' = [v \in 0..(hb_n - 1) |-> hll_insert({}, v)]
    /\ hb_a' = [v \in 0..(hb_n - 1) |-> {}]
    /\ hb_harmonic' = [v \in 0..(hb_n - 1) |-> 0]
    /\ hb_c_start' = hb_c'
    /\ UNCHANGED <<shard_vars, console_vars, runner_vars, rest_vars, hb_n, hb_edge_map,
                   hb_t, hb_threads, hb_rounds>>

NextHyperBallCall ==
    \/ hyper_ball_enter
    \/ hyper_ball_spawn
    \/ hyper_ball_join

SpecHyperBallCall == InitHyperBallCall /\ [][NextHyperBallCall]_vars

(***************************************************************************)
(* The batch drivers of console.cpp: index_domains, index_links and         *)
(* index_words.  Each runs a loop over the batch's warc.paths.gz, `limit`   *)
(* paths at a time, with the merger thread started at the top of an         *)
(* iteration and stopped near its end, and a final pass after the loop.     *)
(* merger.h is not among the sources: the merger is the flag its thread's   *)
(* loop runs on, which start_merge_thread sets and which both               *)
(* stop_merge_thread and stop_merge_thread_only_append clear, joining the    *)
(* thread.                                                                  *)
(***************************************************************************)
Drivers == {"index_domains", "index_links", "index_words"}

\* the most lines a warc.paths.gz has
MaxPaths == 5

\* the most passes of the merger thread that are counted
MaxMerges == 2

\* size_t limit = 5000 (index_domains, index_links, index_urls), 2500 (index_words)
limit_of(fn) == IF fn = "index_words" THEN 1 ELSE 2

\* size_t offset = 0 (index_domains, index_urls, index_words), 5000 (index_links)
first_offset(fn) == IF fn = "index_links" THEN limit_of(fn) ELSE 0

\* if (offset >= 20000) break: eight times the limit of index_words
words_max_offset == 3

\* read_column_into(0, warc_paths, limit, offset): the lines read
read_column_into(paths, limit, offset) ==
    IF offset >= paths THEN 0 ELSE Min(limit, paths - offset)

\* if (warc_paths.size() == 0) break; index_words: if (offset >= 20000) break;
\* the loop of index_urls has no break
leaves_loop(fn, size, offset) ==
    /\ fn # "index_urls"
    /\ (size = 0 \/ (fn = "index_words" /\ offset >= words_max_offset))

\* the offsets from here on are taken as one: they all lie behind the last path
MaxOffset == 8

\* merger::stop_merge_thread, merger::stop_merge_thread_only_append
stop_merge_thread(running) == FALSE

\* no shard, no hyper_ball
only_console ==
    /\ no_shard
    /\ hyper_ball_not_called
    /\ run_not_called
    /\ rest_not_called

\* a driver is called
InitConsole ==
    /\ only_console
    /\ console_fn \in Drivers
    /\ console_pc = "start"
    /\ console_offset = first_offset(console_fn)
    /\ console_paths \in 0..MaxPaths
    /\ console_warc_paths = 0
    /\ merger_running = FALSE
    /\ merger_merges = 0

\* merger::start_merge_thread()
start_merge_thread ==
    /\ console_pc = "start"
    /\ merger_running' = TRUE
    /\ console_pc' = "read"
    /\ UNCHANGED <<shard_vars, hb_vars, runner_vars, rest_vars,
                   console_fn, console_offset, console_paths,
                   console_warc_paths, merger_merges>>

\* warc_paths_file.read_column_into(0, warc_paths, limit, offset);
\* if (warc_paths.size() == 0) break; index_words: if (offset >= 20000) break
console_read_paths ==
    /\ console_pc = "read"
    /\ console_warc_paths' =
           read_column_into(console_paths, limit_of(console_fn), console_offset)
    /\ console_pc' = IF leaves_loop(console_fn, console_warc_paths', console_offset)
                   THEN "final"
                   ELSE "index"
    /\ UNCHANGED <<shard_vars, hb_vars, runner_vars, rest_vars,
                   console_fn, console_offset, console_paths,
                   merger_running, merger_merges>>

\* download_gz_files_to_disk, add_..._files_threaded, delete_downloaded_files
console_index_files ==
    /\ console_pc = "index"
    /\ console_pc' = "stop"
    /\ UNCHANGED <<shard_vars, hb_vars, runner_vars, rest_vars,
                   console_fn, console_offset, console_paths,
                   console_warc_paths, merger_running, merger_merges>>

\* merger::stop_merge_thread_only_append() (index_domains, index_links),
\* merger::stop_merge_thread() (index_words)
console_stop_merge_thread ==
    /\ console_pc = "stop"
    /\ merger_running' = stop_merge_thread(merger_running)
    /\ console_pc' = IF console_fn \in {"index_words", "index_urls"} THEN "next" ELSE "merge"
    /\ UNCHANGED <<shard_vars, hb_vars, runner_vars, rest_vars,
                   console_fn, console_offset, console_paths,
                   console_warc_paths, merger_merges>>

\* domain_level.merge() (index_domains), idx_manager.merge() (index_links)
console_merge ==
    /\ console_pc = "merge"
    /\ console_pc' = "next"
    /\ UNCHANGED <<shard_vars, hb_vars, runner_vars, rest_vars,
                   console_fn, console_offset, console_paths,
                   console_warc_paths, merger_running, merger_merges>>

\* offset += limit, and the next iteration
console_next_batch ==
    /\ console_pc = "next"
    /\ console_offset' = Min(console_offset + limit_of(console_fn), MaxOffset)
    /\ console_pc' = "start"
    /\ UNCHANGED <<shard_vars, hb_vars, runner_vars, rest_vars,
                   console_fn, console_paths, console_warc_paths,
                   merger_running, merger_merges>>

\* dom_index.optimize() (index_domains), idx_manager.optimize() (index_links),
\* word_index.calculate_scores(), sort_by_scores() (index_words); return
console_final_pass ==
    /\ console_pc = "final"
    /\ console_pc' = "returned"
    /\ UNCHANGED <<shard_vars, hb_vars, runner_vars, rest_vars,
                   console_fn, console_offset, console_paths,
                   console_warc_paths, merger_running, merger_merges>>

\* the merger thread: one pass of its loop
merger_pass ==
    /\ merger_running
    /\ merger_merges < MaxMerges
    /\ merger_merges' = merger_merges + 1
    /\ UNCHANGED <<shard_vars, hb_vars, runner_vars, rest_vars,
                   console_fn, console_pc, console_offset,
                   console_paths, console_warc_paths, merger_running>>

NextConsole ==
    \/ start_merge_thread
    \/ console_read_paths
    \/ console_index_files
    \/ console_stop_merge_thread
    \/ console_merge
    \/ console_next_batch
    \/ console_final_pass
    \/ merger_pass

SpecConsole == InitConsole /\ [][NextConsole]_vars

\* index_urls beside the three drivers: the same loop with url_level added to
\* the index manager, stop_merge_thread() at its end and profiler::print_report()
\* after it
AllDrivers == Drivers \cup {"index_urls"}

InitAllDrivers ==
    /\ only_console
    /\ console_fn \in AllDrivers
    /\ console_pc = "start"
    /\ console_offset = first_offset(console_fn)
    /\ console_paths \in 0..MaxPaths
    /\ console_warc_paths = 0
    /\ merger_running = FALSE
    /\ merger_merges = 0

SpecAllDrivers == InitAllDrivers /\ [][NextConsole]_vars

\* the driver and the merger thread each take the steps they can take
FairAllDrivers == SpecAllDrivers /\ WF_vars(NextConsole)

(***************************************************************************)
(* FullTextIndexerRunner::run: truncate_cache(), one task of `pool` for     *)
(* every chunk of local_files, the wait for their results, merge() and      *)
(* sort().  run_index_thread and run_index_thread_with_local_files differ   *)
(* only in how a file is opened (Transfer::gz_file_to_stream with an error  *)
(* code, std::ifstream with is_open()): one task models both.               *)
(* FullTextIndexer, ThreadPool and Algorithm::vector_chunk are not among    *)
(* the sources: write_cache and flush_cache, which are handed the shards'   *)
(* mutexes, append to one shard after the other with the shard's mutex      *)
(* held; a pool of T threads runs at most T of its tasks at a time; and     *)
(* vector_chunk cuts the vector into consecutive pieces of the given        *)
(* length.  What a builder does to its files is left out: a mutation of a   *)
(* shard is a stretch of steps here.  There is one hash table shard         *)
(* (Config::ht_num_shards = 1).                                             *)
(***************************************************************************)
\* Config::ft_num_threads_indexing
ft_num_threads_indexing == 2

\* Config::ft_num_threads_merging
ft_num_threads_merging == 2

\* const size_t merge_batch_size = 500
merge_batch_size == 2

\* the most shards Config::ft_num_shards gives
MaxShards == 4

\* the most files run() is called with
MaxFiles == 4

\* a file that opens (decompresses), and one that does not
FileStates == {"ok", "unreadable"}

\* ceil(local_files.size() / Config::ft_num_threads_indexing): the division is
\* one of integers, and ceil gets a whole number
chunk_size(n, T) == n \div T

chunk_length(n) == chunk_size(n, ft_num_threads_indexing)

\* Algorithm::vector_chunk
RECURSIVE vector_chunk(_, _)
vector_chunk(files, len) ==
    IF Len(files) <= len
    THEN (IF files = <<>> THEN <<>> ELSE <<files>>)
    ELSE <<SubSeq(files, 1, len)>> \o vector_chunk(SubSeq(files, len + 1, Len(files)), len)

\* the positions of a chunk whose file opens
RECURSIVE opened_of(_, _)
opened_of(chunk, from) ==
    IF from > Len(chunk) THEN <<>>
    ELSE (IF chunk[from] = "ok" THEN <<from>> ELSE <<>>) \o opened_of(chunk, from + 1)

\* a task of `pool` as enqueue() leaves it
QueuedTask == [pc |-> "queued", idx |-> 1, shard |-> 0, seen |-> <<>>,
               flushed |-> FALSE, written |-> FALSE]

\* the tasks of a pool that occupy one of its threads
running_index_threads ==
    {id \in DOMAIN index_threads : index_threads[id].pc \notin {"queued", "returned"}}

running_merge_threads ==
    {i \in DOMAIN merge_results : merge_results[i].state = "running"}

\* the loop over the results is left without a result being waited for
none_awaited(tasks) == TRUE

\* for (auto && result : results) result.get()
all_ingested(tasks) == \A id \in DOMAIN tasks : tasks[id].pc = "returned"

\* the results of a batch are dropped without being waited for
none_merged(results) == TRUE

\* for (auto && result : merge_results) result.get()
all_merged(results) == \A i \in DOMAIN results : results[i].state = "done"

\* a task that gives up at a file it cannot open
return_when_unopened == "returned"

\* if (stream.is_open()) { ... } is skipped; the loop body goes on
skip_when_unopened == "ht_full"

\* no shard, no hyper_ball, no batch driver
only_run ==
    /\ no_shard
    /\ hyper_ball_not_called
    /\ console_not_called
    /\ rest_not_called

\* run(local_files, partition) is called
InitRunner ==
    /\ only_run
    /\ ft_num_shards \in 0..MaxShards
    /\ local_files \in UNION {[1..n -> FileStates] : n \in ft_num_threads_indexing..MaxFiles}
    /\ chunks = <<>>
    /\ runner_pc = "truncate_cache"
    /\ shard_id = 0
    /\ truncating = FALSE
    /\ index_threads = <<>>
    /\ m_full_text_mutexes = [s \in 0..(ft_num_shards - 1) |-> 0]
    /\ m_hash_table_mutexes = 0
    /\ m_write_url_to_domain_mutex = 0
    /\ merge_results = <<>>
    /\ merges_done = [s \in 0..(ft_num_shards - 1) |-> 0]

\* truncate_cache: shard_builder->truncate_cache_files() is entered
truncate_cache_begin ==
    /\ runner_pc = "truncate_cache"
    /\ ~truncating
    /\ shard_id < ft_num_shards
    /\ truncating' = TRUE
    /\ UNCHANGED <<shard_vars, hb_vars, console_vars, rest_vars,
                   local_files, chunks, ft_num_shards,
                   runner_pc, shard_id, index_threads, m_full_text_mutexes,
                   m_hash_table_mutexes, m_write_url_to_domain_mutex, merge_results,
                   merges_done>>

\* truncate_cache: truncate_cache_files() returns; shard_id++
truncate_cache_end ==
    /\ runner_pc = "truncate_cache"
    /\ truncating
    /\ truncating' = FALSE
    /\ shard_id' = shard_id + 1
    /\ UNCHANGED <<shard_vars, hb_vars, console_vars, rest_vars,
                   local_files, chunks, ft_num_shards,
                   runner_pc, index_threads, m_full_text_mutexes, m_hash_table_mutexes,
                   m_write_url_to_domain_mutex, merge_results, merges_done>>

\* run: truncate_cache() has returned; the pool is made and the files chunked
run_vector_chunk ==
    /\ runner_pc = "truncate_cache"
    /\ ~truncating
    /\ shard_id >= ft_num_shards
    /\ chunks' = vector_chunk(local_files, chunk_length(Len(local_files)))
    /\ runner_pc' = "enqueue"
    /\ shard_id' = 0
    /\ UNCHANGED <<shard_vars, hb_vars, console_vars, rest_vars,
                   local_files, ft_num_shards,
                   truncating, index_threads, m_full_text_mutexes, m_hash_table_mutexes,
                   m_write_url_to_domain_mutex, merge_results, merges_done>>

\* run: results.emplace_back(pool.enqueue(...)); id++
run_enqueue ==
    /\ runner_pc = "enqueue"
    /\ shard_id < Len(chunks)
    /\ index_threads' = Append(index_threads, QueuedTask)
    /\ shard_id' = shard_id + 1
    /\ UNCHANGED <<shard_vars, hb_vars, console_vars, rest_vars,
                   local_files, chunks, ft_num_shards,
                   runner_pc, truncating, m_full_text_mutexes, m_hash_table_mutexes,
                   m_write_url_to_domain_mutex, merge_results, merges_done>>

\* run: every result.get() has returned; merge() is entered
run_get_results ==
    /\ runner_pc = "enqueue"
    /\ shard_id >= Len(chunks)
    /\ all_ingested(index_threads)
    /\ runner_pc' = IF 0 < ft_num_shards THEN "merge" ELSE "sort"
    /\ shard_id' = 0
    /\ UNCHANGED <<shard_vars, hb_vars, console_vars, rest_vars,
                   local_files, chunks, ft_num_shards,
                   truncating, index_threads, m_full_text_mutexes, m_hash_table_mutexes,
                   m_write_url_to_domain_mutex, merge_results, merges_done>>

\* a thread of `pool` takes the task
index_thread_start(id) ==
    /\ id \in DOMAIN index_threads
    /\ index_threads[id].pc = "queued"
    /\ Cardinality(running_index_threads) < ft_num_threads_indexing
    /\ index_threads' = [index_threads EXCEPT ![id].pc = "file"]
    /\ UNCHANGED <<shard_vars, hb_vars, console_vars, rest_vars,
                   local_files, chunks, ft_num_shards,
                   runner_pc, shard_id, truncating, m_full_text_mutexes,
                   m_hash_table_mutexes, m_write_url_to_domain_mutex, merge_results,
                   merges_done>>

\* run_index_thread_with_local_files: the next file is opened and, if it is
\* open, add_stream reads it and write_cache is entered; after the last file
\* flush_cache is entered
index_thread_open(id) ==
    /\ id \in DOMAIN index_threads
    /\ index_threads[id].pc = "file"
    /\ index_threads' = [index_threads EXCEPT ![id] =
           IF @.idx > Len(chunks[id])
           THEN [@ EXCEPT !.pc = "flush_cache", !.shard = 0]
           ELSE IF chunks[id][@.idx] = "ok"
           THEN [@ EXCEPT !.pc = "write_cache", !.shard = 0, !.seen = Append(@, index_threads[id].idx)]
           ELSE [@ EXCEPT !.pc = skip_when_unopened]]
    /\ UNCHANGED <<shard_vars, hb_vars, console_vars, rest_vars,
                   local_files, chunks, ft_num_shards,
                   runner_pc, shard_id, truncating, m_full_text_mutexes,
                   m_hash_table_mutexes, m_write_url_to_domain_mutex, merge_results,
                   merges_done>>

\* write_cache, flush_cache: the mutex of the next shard is taken and the
\* append to the shard begins
index_thread_lock(id) ==
    /\ id \in DOMAIN index_threads
    /\ index_threads[id].pc \in {"write_cache", "flush_cache"}
    /\ index_threads[id].shard < ft_num_shards
    /\ m_full_text_mutexes[index_threads[id].shard] = 0
    /\ m_full_text_mutexes' = [m_full_text_mutexes EXCEPT ![index_threads[id].shard] = id]
    /\ UNCHANGED <<shard_vars, hb_vars, console_vars, rest_vars,
                   local_files, chunks, ft_num_shards,
                   runner_pc, shard_id, truncating, index_threads, m_hash_table_mutexes,
                   m_write_url_to_domain_mutex, merge_results, merges_done>>

\* write_cache, flush_cache: the append is done and the mutex released
index_thread_unlock(id) ==
    /\ id \in DOMAIN index_threads
    /\ index_threads[id].pc \in {"write_cache", "flush_cache"}
    /\ index_threads[id].shard < ft_num_shards
    /\ m_full_text_mutexes[index_threads[id].shard] = id
    /\ m_full_text_mutexes' = [m_full_text_mutexes EXCEPT ![index_threads[id].shard] = 0]
    /\ index_threads' = [index_threads EXCEPT ![id].shard = @ + 1]
    /\ UNCHANGED <<shard_vars, hb_vars, console_vars, rest_vars,
                   local_files, chunks, ft_num_shards,
                   runner_pc, shard_id, truncating, m_hash_table_mutexes,
                   m_write_url_to_domain_mutex, merge_results, merges_done>>

\* write_cache, flush_cache return
index_thread_cache_done(id) ==
    /\ id \in DOMAIN index_threads
    /\ index_threads[id].pc \in {"write_cache", "flush_cache"}
    /\ index_threads[id].shard >= ft_num_shards
    /\ index_threads' = [index_threads EXCEPT ![id] =
           IF @.pc = "write_cache"
           THEN [@ EXCEPT !.pc = "ht_full"]
           ELSE [@ EXCEPT !.pc = "ht_write", !.flushed = TRUE]]
    /\ UNCHANGED <<shard_vars, hb_vars, console_vars, rest_vars,
                   local_files, chunks, ft_num_shards,
                   runner_pc, shard_id, truncating, m_full_text_mutexes,
                   m_hash_table_mutexes, m_write_url_to_domain_mutex, merge_results,
                   merges_done>>

\* shard_builders[i]->full() is false; idx++
index_thread_not_full(id) ==
    /\ id \in DOMAIN index_threads
    /\ index_threads[id].pc = "ht_full"
    /\ m_hash_table_mutexes # id
    /\ index_threads' = [index_threads EXCEPT ![id].pc = "file", ![id].idx = @ + 1]
    /\ UNCHANGED <<shard_vars, hb_vars, console_vars, rest_vars,
                   local_files, chunks, ft_num_shards,
                   runner_pc, shard_id, truncating, m_full_text_mutexes,
                   m_hash_table_mutexes, m_write_url_to_domain_mutex, merge_results,
                   merges_done>>

\* m_hash_table_mutexes[i].lock(), in the loop when the builder is full and
\* after the loop
index_thread_ht_lock(id) ==
    /\ id \in DOMAIN index_threads
    /\ index_threads[id].pc \in {"ht_full", "ht_write"}
    /\ m_hash_table_mutexes = 0
    /\ m_hash_table_mutexes' = id
    /\ UNCHANGED <<shard_vars, hb_vars, console_vars, rest_vars,
                   local_files, chunks, ft_num_shards,
                   runner_pc, shard_id, truncating, index_threads, m_full_text_mutexes,
                   m_write_url_to_domain_mutex, merge_results, merges_done>>

\* shard_builders[i]->write(); m_hash_table_mutexes[i].unlock()
index_thread_ht_unlock(id) ==
    /\ id \in DOMAIN index_threads
    /\ index_threads[id].pc \in {"ht_full", "ht_write"}
    /\ m_hash_table_mutexes = id
    /\ m_hash_table_mutexes' = 0
    /\ index_threads' = [index_threads EXCEPT ![id] =
           IF @.pc = "ht_full"
           THEN [@ EXCEPT !.pc = "file", !.idx = @ + 1]
           ELSE [@ EXCEPT !.pc = "url_to_domain", !.written = TRUE]]
    /\ UNCHANGED <<shard_vars, hb_vars, console_vars, rest_vars,
                   local_files, chunks, ft_num_shards,
                   runner_pc, shard_id, truncating, m_full_text_mutexes,
                   m_write_url_to_domain_mutex, merge_results, merges_done>>

\* m_write_url_to_domain_mutex.lock()
index_thread_url_lock(id) ==
    /\ id \in DOMAIN index_threads
    /\ index_threads[id].pc = "url_to_domain"
    /\ m_write_url_to_domain_mutex = 0
    /\ m_write_url_to_domain_mutex' = id
    /\ UNCHANGED <<shard_vars, hb_vars, console_vars, rest_vars,
                   local_files, chunks, ft_num_shards,
                   runner_pc, shard_id, truncating, index_threads, m_full_text_mutexes,
                   m_hash_table_mutexes, merge_results, merges_done>>

\* indexer.write_url_to_domain(); m_write_url_to_domain_mutex.unlock(); return ""
index_thread_return(id) ==
    /\ id \in DOMAIN index_threads
    /\ index_threads[id].pc = "url_to_domain"
    /\ m_write_url_to_domain_mutex = id
    /\ m_write_url_to_domain_mutex' = 0
    /\ index_threads' = [index_threads EXCEPT ![id].pc = "returned"]
    /\ UNCHANGED <<shard_vars, hb_vars, console_vars, rest_vars,
                   local_files, chunks, ft_num_shards,
                   runner_pc, shard_id, truncating, m_full_text_mutexes,
                   m_hash_table_mutexes, merge_results, merges_done>>

\* merge: merge_results.emplace_back(merge_pool.enqueue(...)); shard_id++
merge_enqueue ==
    /\ runner_pc = "merge"
    /\ shard_id < ft_num_shards
    /\ Len(merge_results) < merge_batch_size
    /\ merge_results' = Append(merge_results, [shard |-> shard_id, state |-> "queued"])
    /\ shard_id' = shard_id + 1
    /\ UNCHANGED <<shard_vars, hb_vars, console_vars, rest_vars,
                   local_files, chunks, ft_num_shards,
                   runner_pc, truncating, index_threads, m_full_text_mutexes,
                   m_hash_table_mutexes, m_write_url_to_domain_mutex, merges_done>>

\* merge: every result.get() of the batch has returned; merge_results.clear();
\* the next batch, or merge() returns and sort() is entered
merge_get_results ==
    /\ runner_pc = "merge"
    /\ ~(shard_id < ft_num_shards /\ Len(merge_results) < merge_batch_size)
    /\ all_merged(merge_results)
    /\ merge_results' = <<>>
    /\ runner_pc' = IF shard_id < ft_num_shards THEN "merge" ELSE "sort"
    /\ UNCHANGED <<shard_vars, hb_vars, console_vars, rest_vars,
                   local_files, chunks, ft_num_shards,
                   shard_id, truncating, index_threads, m_full_text_mutexes,
                   m_hash_table_mutexes, m_write_url_to_domain_mutex, merges_done>>

\* run_merge_thread: a thread of merge_pool takes the task; shard.merge() is
\* entered
run_merge_thread_begin(i) ==
    /\ i \in DOMAIN merge_results
    /\ merge_results[i].state = "queued"
    /\ Cardinality(running_merge_threads) < ft_num_threads_merging
    /\ merge_results' = [merge_results EXCEPT ![i].state = "running"]
    /\ UNCHANGED <<shard_vars, hb_vars, console_vars, rest_vars,
                   local_files, chunks, ft_num_shards,
                   runner_pc, shard_id, truncating, index_threads, m_full_text_mutexes,
                   m_hash_table_mutexes, m_write_url_to_domain_mutex, merges_done>>

\* run_merge_thread: shard.merge() returns; return ""
run_merge_thread_end(i) ==
    /\ i \in DOMAIN merge_results
    /\ merge_results[i].state = "running"
    /\ merge_results' = [merge_results EXCEPT ![i].state = "done"]
    /\ merges_done' = [merges_done EXCEPT ![merge_results[i].shard] = @ + 1]
    /\ UNCHANGED <<shard_vars, hb_vars, console_vars, rest_vars,
                   local_files, chunks, ft_num_shards,
                   runner_pc, shard_id, truncating, index_threads, m_full_text_mutexes,
                   m_hash_table_mutexes, m_write_url_to_domain_mutex>>

\* sort() and the return of run()
run_sort ==
    /\ runner_pc = "sort"
    /\ runner_pc' = "returned"
    /\ UNCHANGED <<shard_vars, hb_vars, console_vars, rest_vars,
                   local_files, chunks, ft_num_shards,
                   shard_id, truncating, index_threads, m_full_text_mutexes,
                   m_hash_table_mutexes, m_write_url_to_domain_mutex, merge_results,
                   merges_done>>

NextRunner ==
    \/ truncate_cache_begin
    \/ truncate_cache_end
    \/ run_vector_chunk
    \/ run_enqueue
    \/ run_get_results
    \/ \E id \in 1..MaxFiles : index_thread_start(id)
    \/ \E id \in 1..MaxFiles : index_thread_open(id)
    \/ \E id \in 1..MaxFiles : index_thread_lock(id)
    \/ \E id \in 1..MaxFiles : index_thread_unlock(id)
    \/ \E id \in 1..MaxFiles : index_thread_cache_done(id)
    \/ \E id \in 1..MaxFiles : index_thread_not_full(id)
    \/ \E id \in 1..MaxFiles : index_thread_ht_lock(id)
    \/ \E id \in 1..MaxFiles : index_thread_ht_unlock(id)
    \/ \E id \in 1..MaxFiles : index_thread_url_lock(id)
    \/ \E id \in 1..MaxFiles : index_thread_return(id)
    \/ merge_enqueue
    \/ merge_get_results
    \/ \E i \in 1..merge_batch_size : run_merge_thread_begin(i)
    \/ \E i \in 1..merge_batch_size : run_merge_thread_end(i)
    \/ run_sort

SpecRunner == InitRunner /\ [][NextRunner]_vars

\* every thread that can take a step takes one
FairRunner == SpecRunner /\ WF_vars(NextRunner)

(***************************************************************************)
(* Functions called on their own, each on arguments drawn from a bounded    *)
(* set: fn_call holds the name of the function and its arguments, fn_result *)
(* is empty until the call is made and holds what it came to afterwards.    *)
(***************************************************************************)
\* no builder, no hyper_ball, no batch driver, no run()
only_function ==
    /\ no_shard
    /\ hyper_ball_not_called
    /\ console_not_called
    /\ run_not_called
    /\ store_not_called

\* the most files and the most threads a chunk size is computed for
MaxChunkFiles == 9

MaxChunkThreads == 4

\* ceil((double)files.size() / num_threads) of counter.cpp
counter_chunk_size(n, T) == (n + T - 1) \div T

\* the number of pieces vector_chunk cuts n files into, for a length of at
\* least 1
chunk_count(n, len) == (n + len - 1) \div len

ChunkCalls ==
    {[name |-> fn, args |-> <<n, T>>] :
        fn \in {"run_chunk_size", "counter_chunk_size"},
        n \in 1..MaxChunkFiles, T \in 1..MaxChunkThreads}

\* FullTextIndexerRunner::run computes the chunk size
run_chunk_size ==
    /\ fn_call.name = "run_chunk_size"
    /\ fn_result = <<>>
    /\ fn_result' = <<chunk_size(fn_call.args[1], fn_call.args[2])>>
    /\ UNCHANGED <<shard_vars, hb_vars, console_vars, runner_vars, store_vars, fn_call>>

\* run_counter_per_domain computes the chunk size
run_counter_per_domain ==
    /\ fn_call.name = "counter_chunk_size"
    /\ fn_result = <<>>
    /\ fn_result' = <<counter_chunk_size(fn_call.args[1], fn_call.args[2])>>
    /\ UNCHANGED <<shard_vars, hb_vars, console_vars, runner_vars, store_vars, fn_call>>

\* url_level::apply_url_links.  A link_record is its m_target_hash and its
\* m_source_domain, a return_record its m_value and its m_num_url_links; the
\* score a link adds to m_score is left out.
MaxLinks == 3

\* target hashes and result values
MaxHash == 3

\* source domains
MaxDomain == 2

\* links[i] for i + 1 = 1..Len, ascending by m_target_hash
LinkLists ==
    {links \in UNION {[1..n -> [target : 1..MaxHash, domain : 1..MaxDomain]] :
                         n \in 0..MaxLinks} :
        \A i \in 1..(Len(links) - 1) : links[i].target <= links[i + 1].target}

\* results, ascending and unique by m_value, with the links counted so far
ResultLists ==
    {[i \in 1..Len(vs) |-> [value |-> vs[i], num_url_links |-> count]] :
        vs \in {SortedSeqOf(set) : set \in SUBSET (1..MaxHash)}, count \in 0..1}

\* the key of domain_unique with the target hash left out of it
domain_only(link) == <<link.domain, 0>>

\* std::make_pair(links[i].m_source_domain, links[i].m_target_hash)
domain_and_target(link) == <<link.domain, link.target>>

\* the while loop of apply_url_links, from i and j on (both counted from 1)
RECURSIVE apply_links_from(_, _, _, _, _, _)
apply_links_from(links, results, i, j, domain_unique, applied_links) ==
    IF ~(i <= Len(links) /\ j <= Len(results))
    THEN [results |-> results, ret |-> applied_links]
    ELSE IF links[i].target < results[j].value
    THEN apply_links_from(links, results, i + 1, j, domain_unique, applied_links)
    ELSE IF links[i].target = results[j].value
    THEN (IF domain_and_target(links[i]) \notin domain_unique
          THEN apply_links_from(links,
                                [results EXCEPT ![j].num_url_links = @ + 1],
                                i + 1, j,
                                domain_unique \cup {domain_and_target(links[i])},
                                applied_links + 1)
          ELSE apply_links_from(links, results, i + 1, j, domain_unique, applied_links))
    ELSE apply_links_from(links, results, i, j + 1, domain_unique, applied_links)

apply_url_links(links, results) ==
    IF Len(links) = 0
    THEN [results |-> results, ret |-> 0]
    ELSE apply_links_from(links, results, 1, 1, {}, 0)

LinkCalls ==
    {[name |-> "apply_url_links", args |-> <<links, results>>] :
        links \in LinkLists, results \in ResultLists}

\* apply_url_links(links, results) is called
call_apply_url_links ==
    /\ fn_call.name = "apply_url_links"
    /\ fn_result = <<>>
    /\ fn_result' = <<apply_url_links(fn_call.args[1], fn_call.args[2])>>
    /\ UNCHANGED <<shard_vars, hb_vars, console_vars, runner_vars, store_vars, fn_call>>

\* UrlStore::str_to_data(cstr, len).  The bytes themselves are left out: the
\* arguments are len, the size_t the buffer holds at offs_url_len and the
\* size_t read at offs_redirect_len; the result is what is returned and the
\* stretches of cstr that were read, each as <<first position, bytes>>.
\* size_t arithmetic is modulo SizeMod.
\* sizeof(UrlDataStore): three size_t
sizeof_UrlDataStore == 24

\* sizeof(size_t)
sizeof_size_t == 8

\* 2^64, the width of size_t brought down to six bits
SizeMod == 64

\* the lengths of the buffers str_to_data is called with
MinDataLen == 38

MaxDataLen == 48

str_to_data(len, url_len_at, redirect_len_at) ==
    IF len < sizeof_UrlDataStore + 2 * sizeof_size_t
    THEN [ret |-> "empty", reads |-> {}]
    ELSE LET offs_url_len == sizeof_UrlDataStore
             offs_url == offs_url_len + sizeof_size_t
             url_len == url_len_at
             offs_redirect_len == (offs_url + url_len) % SizeMod
             offs_redirect == (offs_redirect_len + sizeof_size_t) % SizeMod
             redirect_len == redirect_len_at
             head == {<<0, sizeof_UrlDataStore>>, <<offs_url_len, sizeof_size_t>>}
         IN IF offs_redirect_len >= len
            THEN [ret |-> "empty", reads |-> head]
            ELSE IF (offs_redirect + redirect_len) % SizeMod <= len
            THEN [ret |-> "decoded",
                  reads |-> head \cup {<<offs_redirect_len, sizeof_size_t>>,
                                       <<offs_url, url_len>>,
                                       <<offs_redirect, redirect_len>>}]
            ELSE [ret |-> "counts_only",
                  reads |-> head \cup {<<offs_redirect_len, sizeof_size_t>>}]

DataCalls ==
    {[name |-> "str_to_data", args |-> <<len, url_len, redirect_len>>] :
        len \in MinDataLen..MaxDataLen,
        url_len \in 0..(SizeMod - 1), redirect_len \in 0..(SizeMod - 1)}

\* str_to_data(cstr, len) is called
call_str_to_data ==
    /\ fn_call.name = "str_to_data"
    /\ fn_result = <<>>
    /\ fn_result' = <<str_to_data(fn_call.args[1], fn_call.args[2], fn_call.args[3])>>
    /\ UNCHANGED <<shard_vars, hb_vars, console_vars, runner_vars, store_vars, fn_call>>

\* one of the functions is called
InitFunctions ==
    /\ only_function
    /\ fn_call \in ChunkCalls \cup LinkCalls \cup DataCalls
    /\ fn_result = <<>>

NextFunctions ==
    \/ run_chunk_size
    \/ run_counter_per_domain
    \/ call_apply_url_links
    \/ call_str_to_data

SpecFunctions == InitFunctions /\ [][NextFunctions]_vars

(***************************************************************************)
(* UrlStore: the put handler, the pending inserts it leaves on disk and the *)
(* inserter threads that consume them.  A key lives in one shard, so the    *)
(* shards are one map from key to stored string; a URL is a number and its  *)
(* key is that number, 0 for the URL of UrlData{}.  Each put request        *)
(* carries records whose four fields all hold the request's number, which   *)
(* tells whose update a stored field came from.  Put requests are handled   *)
(* while no inserter runs.                                                  *)
(***************************************************************************)
\* no builder, no hyper_ball, no batch driver, no run(), no function
only_store ==
    /\ no_shard
    /\ hyper_ball_not_called
    /\ console_not_called
    /\ run_not_called
    /\ fn_not_called

\* the bits of update_bitmask
update_redirect == 1

update_link_count == 2

update_http_code == 4

update_last_visited == 8

\* the bitmasks a request is made with
Masks == {0, update_redirect, update_link_count, update_http_code + update_last_visited}

\* update_bitmask & bit
has_bit(update_bitmask, bit) == (update_bitmask \div bit) % 2 = 1

\* UrlData{}
EmptyUrlData ==
    [url |-> NoUrl, redirect |-> NoUrl, link_count |-> 0, http_code |-> 0,
     last_visited |-> 0]

\* the record request number `tag` carries for `url`
UrlDataOf(url, tag) ==
    [url |-> url, redirect |-> tag, link_count |-> tag, http_code |-> tag,
     last_visited |-> tag]

\* data_to_str: the UrlDataStore, then the URL, then the redirect
data_to_str(data) ==
    <<data.link_count, data.http_code, data.last_visited, data.url, data.redirect>>

\* str_to_data on a string data_to_str has written
str_to_data_fields(str) ==
    [url |-> str[4], redirect |-> str[5], link_count |-> str[1], http_code |-> str[2],
     last_visited |-> str[3]]

\* UrlStore::get
UrlStore_get(shards, url) ==
    IF Len(shards[url]) > 0 THEN str_to_data_fields(shards[url]) ELSE EmptyUrlData

\* apply_update: the url of dest stays
apply_update(dest, src, update_bitmask) ==
    [url |-> dest.url,
     redirect |-> IF has_bit(update_bitmask, update_redirect)
                  THEN src.redirect ELSE dest.redirect,
     link_count |-> IF has_bit(update_bitmask, update_link_count)
                    THEN src.link_count ELSE dest.link_count,
     http_code |-> IF has_bit(update_bitmask, update_http_code)
                   THEN src.http_code ELSE dest.http_code,
     last_visited |-> IF has_bit(update_bitmask, update_last_visited)
                      THEN src.last_visited ELSE dest.last_visited]

\* the body of the loop of consume_write_data and handle_put_request: what
\* batch.set() is called with
to_set(shards, update_bitmask, data) ==
    IF update_bitmask # 0
    THEN apply_update(UrlStore_get(shards, data.url), data, update_bitmask)
    ELSE data

\* UrlStoreBatch::set: the Put of data under the key of its url
batch_set(batch, data) == Append(batch, <<data.url, data_to_str(data)>>)

\* UrlStore::write_batch: the puts of the batch, in order
RECURSIVE write_batch(_, _)
write_batch(shards, batch) ==
    IF batch = <<>> THEN shards
    ELSE write_batch([shards EXCEPT ![Head(batch)[1]] = Head(batch)[2]], Tail(batch))

\* UrlStore::has_pending_insert
has_pending_insert(pending) == Len(pending) > 0

\* m_pending_inserts.front()
front(pending) == Head(pending)

\* m_pending_inserts.pop_front(), left out
pop_front_kept(pending) == pending

\* m_pending_inserts.pop_front()
pop_front(pending) == Tail(pending)

\* the file is read: infile of a file that is there, else nothing
file_data(files, filename) ==
    IF filename \in DOMAIN files THEN files[filename] ELSE NoWriteData

\* File::delete_file
delete_file(files, filename) ==
    [f \in (DOMAIN files) \ {filename} |-> files[f]]

\* the request: deferred, update_bitmask and the records
WriteData(deferred, update_bitmask, url, records, tag) ==
    [deferred |-> deferred, update_bitmask |-> update_bitmask,
     datas |-> [i \in 1..records |-> UrlDataOf(url, tag)]]

\* the batch handle_put_request writes for a request that is not deferred
RECURSIVE put_batch(_, _, _, _)
put_batch(shards, write_data, iter, batch) ==
    IF iter > Len(write_data.datas) THEN batch
    ELSE put_batch(shards, write_data, iter + 1,
                   batch_set(batch, to_set(shards, write_data.update_bitmask,
                                           write_data.datas[iter])))

\* handle_put_request: a deferred request goes to a new file and its name to
\* the pending inserts (store_write_data); any other is written at once
handle_put_request ==
    \E deferred \in {0, 1}, update_bitmask \in Masks, url \in 1..MaxUrl,
       records \in 1..MaxRecords :
        /\ inserter_pc = "idle"
        /\ n_puts < MaxPuts
        /\ n_puts' = n_puts + 1
        /\ IF deferred # 0
           THEN /\ cache_files' = cache_files @@
                      (n_puts' :> WriteData(deferred, update_bitmask, url, records, n_puts'))
                /\ m_pending_inserts' = Append(m_pending_inserts, n_puts')
                /\ UNCHANGED m_shards
           ELSE /\ m_shards' = write_batch(m_shards,
                      put_batch(m_shards,
                                WriteData(deferred, update_bitmask, url, records, n_puts'),
                                1, <<>>))
                /\ UNCHANGED <<cache_files, m_pending_inserts>>
        /\ UNCHANGED <<shard_vars, hb_vars, console_vars, runner_vars, fn_vars,
                       inserter_pc, inserter_threads, _mutex, one_pc, one_filename,
                       one_write_data, one_iter, one_batch, taken, consumed, deleted,
                       at_call>>

\* run_inserter up to the loop that starts the threads: nothing to do with no
\* pending insert (compact_all_if_full changes no stored value)
run_inserter ==
    /\ inserter_pc = "idle"
    /\ IF has_pending_insert(m_pending_inserts)
       THEN /\ inserter_pc' = "spawn"
            /\ inserter_threads' = 0
            /\ one_pc' = [t \in Inserters |-> "none"]
            /\ taken' = <<>>
            /\ at_call' = [pending |-> m_pending_inserts, shards |-> m_shards]
       ELSE UNCHANGED <<inserter_pc, inserter_threads, one_pc, taken, at_call>>
    /\ UNCHANGED <<shard_vars, hb_vars, console_vars, runner_vars, fn_vars, m_shards,
                   m_pending_inserts, cache_files, n_puts, _mutex, one_filename,
                   one_write_data, one_iter, one_batch, consumed, deleted>>

\* threads.emplace_back(thread(run_one_inserter, ...)): the thread may run
\* from here on
run_inserter_spawn ==
    /\ inserter_pc = "spawn"
    /\ inserter_threads' = inserter_threads + 1
    /\ one_pc' = [one_pc EXCEPT ![inserter_threads'] = "lock"]
    /\ inserter_pc' = IF inserter_threads' = MaxInserters THEN "join" ELSE "spawn"
    /\ UNCHANGED <<shard_vars, hb_vars, console_vars, runner_vars, fn_vars, m_shards,
                   m_pending_inserts, cache_files, n_puts, _mutex, one_filename,
                   one_write_data, one_iter, one_batch, taken, consumed, deleted,
                   at_call>>

\* every thread has ended
all_joined == \A t \in Inserters : one_pc[t] = "done"

\* th.join() for every thread, and the return
run_inserter_join ==
    /\ inserter_pc = "join"
    /\ all_joined
    /\ inserter_pc' = "idle"
    /\ UNCHANGED <<shard_vars, hb_vars, console_vars, runner_vars, fn_vars, m_shards,
                   m_pending_inserts, cache_files, n_puts, inserter_threads, _mutex,
                   one_pc, one_filename, one_write_data, one_iter, one_batch, taken,
                   consumed, deleted, at_call>>

\* _mutex.lock()
run_one_inserter_lock ==
    \E t \in Inserters :
        /\ one_pc[t] = "lock"
        /\ _mutex = 0
        /\ _mutex' = t
        /\ one_pc' = [one_pc EXCEPT ![t] = "locked"]
        /\ UNCHANGED <<shard_vars, hb_vars, console_vars, runner_vars, fn_vars, m_shards,
                       m_pending_inserts, cache_files, n_puts, inserter_pc,
                       inserter_threads, one_filename, one_write_data, one_iter,
                       one_batch, taken, consumed, deleted, at_call>>

\* if (has_pending_insert()) { filename = next_pending_insert(); } and
\* _mutex.unlock() on either path
run_one_inserter_next ==
    \E t \in Inserters :
        /\ one_pc[t] = "locked"
        /\ _mutex' = 0
        /\ IF has_pending_insert(m_pending_inserts)
           THEN /\ one_filename' = [one_filename EXCEPT ![t] = front(m_pending_inserts)]
                /\ m_pending_inserts' = pop_front(m_pending_inserts)
                /\ taken' = Append(taken, <<t, front(m_pending_inserts)>>)
                /\ one_pc' = [one_pc EXCEPT ![t] = "read"]
           ELSE /\ one_pc' = [one_pc EXCEPT ![t] = "done"]
                /\ UNCHANGED <<one_filename, m_pending_inserts, taken>>
        /\ UNCHANGED <<shard_vars, hb_vars, console_vars, runner_vars, fn_vars, m_shards,
                       cache_files, n_puts, inserter_pc, inserter_threads,
                       one_write_data, one_iter, one_batch, consumed, deleted, at_call>>

\* the file is read into write_data and consume_write_data is entered
run_one_inserter_read ==
    \E t \in Inserters :
        /\ one_pc[t] = "read"
        /\ one_write_data' =
               [one_write_data EXCEPT ![t] = file_data(cache_files, one_filename[t])]
        /\ one_iter' = [one_iter EXCEPT ![t] = 1]
        /\ one_batch' = [one_batch EXCEPT ![t] = <<>>]
        /\ consumed' = [consumed EXCEPT ![one_filename[t]] = @ + 1]
        /\ one_pc' = [one_pc EXCEPT ![t] = "consume"]
        /\ UNCHANGED <<shard_vars, hb_vars, console_vars, runner_vars, fn_vars, m_shards,
                       m_pending_inserts, cache_files, n_puts, inserter_pc,
                       inserter_threads, _mutex, one_filename, taken, deleted, at_call>>

\* one pass of the loop of consume_write_data: store.get, apply_update and
\* batch.set for the record at iter
consume_write_data_record ==
    \E t \in Inserters :
        /\ one_pc[t] = "consume"
        /\ one_iter[t] <= Len(one_write_data[t].datas)
        /\ one_batch' = [one_batch EXCEPT ![t] =
               batch_set(@, to_set(m_shards, one_write_data[t].update_bitmask,
                                   one_write_data[t].datas[one_iter[t]]))]
        /\ one_iter' = [one_iter EXCEPT ![t] = @ + 1]
        /\ UNCHANGED <<shard_vars, hb_vars, console_vars, runner_vars, fn_vars, m_shards,
                       m_pending_inserts, cache_files, n_puts, inserter_pc,
                       inserter_threads, _mutex, one_pc, one_filename, one_write_data,
                       taken, consumed, deleted, at_call>>

\* store.write_batch(batch) after the loop
consume_write_data_write ==
    \E t \in Inserters :
        /\ one_pc[t] = "consume"
        /\ one_iter[t] > Len(one_write_data[t].datas)
        /\ m_shards' = write_batch(m_shards, one_batch[t])
        /\ one_pc' = [one_pc EXCEPT ![t] = "delete"]
        /\ UNCHANGED <<shard_vars, hb_vars, console_vars, runner_vars, fn_vars,
                       m_pending_inserts, cache_files, n_puts, inserter_pc,
                       inserter_threads, _mutex, one_filename, one_write_data, one_iter,
                       one_batch, taken, consumed, deleted, at_call>>

\* File::delete_file(filename) and the return
run_one_inserter_delete ==
    \E t \in Inserters :
        /\ one_pc[t] = "delete"
        /\ cache_files' = delete_file(cache_files, one_filename[t])
        /\ deleted' = [deleted EXCEPT ![one_filename[t]] =
                           IF one_filename[t] \in DOMAIN cache_files THEN @ + 1 ELSE @]
        /\ one_pc' = [one_pc EXCEPT ![t] = "done"]
        /\ UNCHANGED <<shard_vars, hb_vars, console_vars, runner_vars, fn_vars, m_shards,
                       m_pending_inserts, n_puts, inserter_pc, inserter_threads, _mutex,
                       one_filename, one_write_data, one_iter, one_batch, taken,
                       consumed, at_call>>

\* a UrlStore that holds nothing yet
InitStore ==
    /\ only_store
    /\ store_not_called

NextStore ==
    \/ handle_put_request
    \/ run_inserter
    \/ run_inserter_spawn
    \/ run_inserter_join
    \/ run_one_inserter_lock
    \/ run_one_inserter_next
    \/ run_one_inserter_read
    \/ consume_write_data_record
    \/ consume_write_data_write
    \/ run_one_inserter_delete

SpecStore == InitStore /\ [][NextStore]_vars

(***************************************************************************)
(* The claims.                                                             *)
(***************************************************************************)

\* C1: round trip on a fresh builder (no .data yet): after append() and merge()
\* the list merge() stores for a key with at most P distinct added values holds
\* one record per value, ascending, its score the sum over the added records of
\* that value, and find(key) of the reader returns that list.
C1_RoundTrip ==
    [][(merge /\ data_file = <<>>) =>
        \A k \in Keys :
            \A all \in {SumDedup(SpillOf(k, key_cache_file, cache_file))},
               after \in {data_file'} :
                Cardinality(all) <= ft_max_results_per_section
                    => /\ ListIn(after, k) = Ascending(all)
                       /\ \A r \in FreshReaders, uninit \in UninitWords :
                              find(r, after, k, uninit).ret = Ascending(all)]_vars

\* C2: each merge() folds .data together with the spill: for a key with at most
\* P distinct values in .data and spill together, the list merge() stores holds
\* one record per value, ascending, its score the sum over .data and spill.
C2_AccumulatesAcrossMerges ==
    [][merge =>
        \A k \in Keys :
            \A all \in {SumDedup(Folded(k))}, after \in {data_file'} :
                Cardinality(all) <= ft_max_results_per_section
                    => ListIn(after, k) = Ascending(all)]_vars

\* one add() in this behaviour, and key 2 holds the sum of that record and the
\* one the earlier batch had merged
C2_Witness ==
    /\ n_adds = 1
    /\ SpillEmpty /\ m_keys = <<>>
    /\ StoredList(2) = <<Record(1, 2 * ScoreOf(1))>>

\* C3: merge() is idempotent: a merge() on an empty spill (nothing appended
\* since the merge() that wrote .data) leaves .data word for word as it was.
C3_MergeIdempotent ==
    [][(merge /\ SpillEmpty) => data_file' = data_file]_vars

\* C4: after any merge() no posting list stored in .data has more than S*P records.
C4_TruncationBound ==
    pc = "idle" => \A k \in StoredKeys : Len(StoredList(k)) <= MaxResults

\* a list that a merge() has cut: S*P records stored, more counted
C4_Witness ==
    \E k \in StoredKeys :
        Len(StoredList(k)) = MaxResults /\ Stored.totals[k] > MaxResults

\* C5: merge() keeps S*P records of a deduplicated list that has more, every kept
\* record scoring at least as much as every dropped one; a list of at most S*P
\* records is kept whole.
C5_TopK ==
    [][merge =>
        \A k \in Keys :
            \A all \in {SumDedup(Folded(k))}, after \in {data_file'} :
                \A kept \in {RecordSet(ListIn(after, k))} :
                    IF Cardinality(all) > MaxResults
                    THEN /\ Len(ListIn(after, k)) = MaxResults
                         /\ Cardinality(kept) = MaxResults
                         /\ kept \subseteq all
                         /\ \A a \in kept, b \in all \ kept : a.score >= b.score
                    ELSE /\ kept = all
                         /\ Len(ListIn(after, k)) = Cardinality(all)]_vars

\* a cut list whose kept records do not all score the same
C5_Witness ==
    \E k \in StoredKeys :
        /\ Stored.totals[k] > MaxResults
        /\ Len(StoredList(k)) = MaxResults
        /\ \E i, j \in 1..MaxResults : StoredList(k)[i].score > StoredList(k)[j].score

\* C6: every stored list is made of consecutive sections of P records (the last
\* one possibly shorter), each ascending by value.
C6_SectionOrdering ==
    pc = "idle" =>
        \A k \in StoredKeys :
            \A i \in 1..(Len(StoredList(k)) - 1) :
                i % ft_max_results_per_section # 0
                    => StoredList(k)[i].value < StoredList(k)[i + 1].value

\* a list of exactly S*P records that is not ascending as a whole
C6_Witness ==
    \E k \in StoredKeys :
        /\ Len(StoredList(k)) = MaxResults
        /\ \E i \in 1..(MaxResults - 1) :
              StoredList(k)[i].value > StoredList(k)[i + 1].value

\* C7: no posting list stored in .data holds two records of the same value.
C7_UniqueValues ==
    pc = "idle" =>
        \A k \in StoredKeys :
            \A i, j \in 1..Len(StoredList(k)) :
                i # j => StoredList(k)[i].value # StoredList(k)[j].value

\* a stored record that is the sum of several added ones
C7_Witness ==
    \E k \in StoredKeys :
        \E i \in 1..Len(StoredList(k)) :
            StoredList(k)[i].score # ScoreOf(StoredList(k)[i].value)

\* C8: after merge() with H > 0, entry s of .keys is the offset in .data of the
\* page whose key array is the set of merged keys k with k mod H = s, and SIZE_MAX
\* when there is no such key.
C8_DirectoryCorrect ==
    [][(merge /\ m_hash_table_size > 0) =>
        \A keys_after \in {key_file'}, after \in {data_file'} :
            /\ Len(keys_after) = m_hash_table_size
            /\ \A s \in 0..(m_hash_table_size - 1) :
                  LET ks == {k \in MergedKeys : k % m_hash_table_size = s}
                  IN IF ks = {}
                     THEN keys_after[s + 1] = SIZE_MAX
                     ELSE /\ keys_after[s + 1] \in PageStarts(after, 0)
                          /\ PageKeysAt(after, keys_after[s + 1]) = SortedSeqOf(ks)]_vars

\* slot 0 has a page and slot 1 points to a later page that holds keys 1 and 3
C8_Witness ==
    /\ m_hash_table_size = 2
    /\ Len(key_file) = 2
    /\ key_file[1] # SIZE_MAX
    /\ key_file[2] \in PageStarts(data_file, 0) \ {0}
    /\ PageKeysAt(data_file, key_file[2]) = <<1, 3>>

\* no key in slot 0: its entry is SIZE_MAX
C8_WitnessEmptySlot ==
    /\ m_hash_table_size = 2
    /\ Len(key_file) = 2
    /\ key_file[1] = SIZE_MAX
    /\ key_file[2] = 0
    /\ data_file # <<>>


\* the posting lists a .data file holds
CacheIn(file) == read_data_to_cache(file).cache

\* the keys of the pages save_file has written so far
WrittenKeys ==
    {k \in DOMAIN m_cache :
        \A i \in DOMAIN merge_pages : merge_pages[i] # page_of(k, m_hash_table_size)}

SpillAsAtCall ==
    key_cache_file = merge_from.spill_keys /\ cache_file = merge_from.spill_records

C10_TruncateDeletesAll ==
    [][truncate =>
        \A data_after \in {data_file'}, meta_after \in {meta_file'},
           keys_after \in {key_file'} :
            /\ data_after = <<>>
            /\ cache_file' = <<>>
            /\ key_cache_file' = <<>>
            /\ read_meta(meta_after) = {}
            /\ merge_files(data_after, keys_after, <<>>, <<>>, meta_after,
                           m_hash_table_size, sort_ties).meta.unique_count = 0]_vars

\* C11: truncate_cache_files() deletes the spills only: both spill files are
\* empty afterwards and .data, .keys and .meta are as they were.
C11_TruncateCacheFrame ==
    [][truncate_cache_files =>
        /\ cache_file' = <<>>
        /\ key_cache_file' = <<>>
        /\ data_file' = data_file
        /\ key_file' = key_file
        /\ meta_file' = meta_file]_vars

\* a record was added and appended, the spill is empty again and the shard of
\* the earlier batch is untouched: the spill was dropped, not merged
C11_Witness ==
    /\ n_adds > 0
    /\ m_keys = <<>>
    /\ SpillEmpty
    /\ data_file # <<>>
    /\ \A shard \in {EarlierShard(m_hash_table_size, sort_ties)} :
          /\ data_file = shard.data
          /\ key_file = shard.keys
          /\ meta_file = shard.meta

\* C12: the spill files stay parallel: .cache.keys and .cache hold the same
\* number of elements, and they are the keys and the records of the add() calls
\* appended since the spill was last emptied, pair by pair in the order of the
\* calls.
C12_SpillParallel ==
    /\ Len(key_cache_file) = Len(cache_file)
    /\ key_cache_file = KeysOf(added.spilled)
    /\ cache_file = RecordsOf(added.spilled)

\* two appends have written the spill, with different keys
C12_Witness ==
    /\ Len(cache_file) = 2
    /\ key_cache_file[1] # key_cache_file[2]
    /\ m_keys = <<>>
    /\ added.spilled = <<<<key_cache_file[1], cache_file[1]>>,
                         <<key_cache_file[2], cache_file[2]>>>>

C13_FindEmpty ==
    [][\A key \in Keys, uninit \in UninitWords :
          (/\ reader_find(key, uninit)
           /\ data_file \notin ForeignFiles
           /\ key \notin StoredKeys)
              => \A after \in {reader'} : after.ret = <<>> /\ ~after.raised]_vars

\* C14: find(key) never raises, whatever the shard file holds.
C14_FindNeverRaises ==
    [][\A key \in Keys, uninit \in UninitWords :
          reader_find(key, uninit) => \A after \in {reader'} : ~after.raised]_vars

\* C15: for a key of the shard find(key) returns exactly length[key] /
\* record_size records, namely the records stored for the key.
C15_FindReadsLength ==
    [][\A key \in Keys, uninit \in UninitWords :
          (/\ reader_find(key, uninit)
           /\ data_file \notin ForeignFiles
           /\ key \in StoredKeys)
              => \A after \in {reader'} :
                    /\ Len(after.ret) = Len(StoredList(key))
                    /\ after.ret = StoredList(key)]_vars

\* C16: for a fixed .data, find(key) gives what it gives on a freshly
\* constructed reader, whatever this reader did before.
C16_FindDeterministic ==
    [][\A key \in Keys, uninit \in UninitWords :
          reader_find(key, uninit)
              => \A after \in {reader'}, fresh \in FreshReaders, held \in UninitWords :
                    \A first \in {find(fresh, data_file, key, held)} :
                        /\ after.ret = first.ret
                        /\ after.raised = first.raised]_vars

\* C18: when a buffer allocation fails while merge() loads .data or the spill,
\* .data is not rewritten and the spill files are not cleared.
C18_AllocFailureAborts ==
    [][\A fault \in AllocFaults :
          merge_fault(fault) =>
              /\ data_file' = data_file
              /\ cache_file' = cache_file
              /\ key_cache_file' = key_cache_file]_vars

\* C19: a merge() that meets a payload read returning no bytes before the
\* declared length writes a .data that contains no keys.
C19_ShortReadEmptyRebuild ==
    [][(merge /\ DataStopped(data_file)) =>
          \A after \in {data_file'} : DOMAIN CacheIn(after) = {}
                                          /\ PageStarts(after, 0) = {}]_vars

\* C19, amended: a merge() that meets a payload read returning no bytes before
\* the declared length writes the .data that a merge() of the same spill files
\* on a shard without .data writes: the lists .data held are dropped, the
\* records of the spill are stored.
C19_ShortReadSpillOnly ==
    [][(merge /\ DataStopped(data_file)) =>
          \A after \in {data_file'} :
              after = merge_files(<<>>, key_file, key_cache_file, cache_file,
                                  meta_file, m_hash_table_size, sort_ties).data]_vars

\* a rebuilt shard that holds a key of the spill and none of the keys the
\* earlier batch had stored, its meta file still counting their values
C19_Witness ==
    /\ pc = "idle" /\ SpillEmpty /\ m_keys = <<>>
    /\ meta_file.present /\ {1, 2, 3} \subseteq meta_file.registers
    /\ data_file # <<>> /\ ~DataStopped(data_file)
    /\ StoredKeys \cap {1, 2} = {}

\* C20: when merge() raises because a shard file cannot be opened, .data holds
\* the bytes it held before the call.
C20_OpenFailureNoDamage ==
    [][\A fault \in OpenFaults :
          merge_fault(fault) => data_file' = data_file]_vars


\* the keys of the pages of a .data file whose header says more than
\* m_max_num_keys keys
OversizeKeys(file) ==
    UNION {{PageKeysAt(file, b)[i] : i \in 1..file[b \div 8 + 1]} :
              b \in {q \in PageStarts(file, 0) : file[q \div 8 + 1] > m_max_num_keys}}

\* C21: a page header whose num_keys exceeds the ceiling is rejected by the
\* reader and by the builder's merge alike: read_keys raises on it, and
\* merge() loads no list of such a page, so a key of it is in the .data that
\* merge() leaves only if the spill holds it.
C21_OversizeRejected ==
    /\ \A f \in ForeignFiles, r \in FreshReaders : read_keys(r, f).raised
    /\ [][merge =>
            \A before \in {data_file}, after \in {data_file'} :
                \A k \in OversizeKeys(before) :
                    k \in DOMAIN CacheIn(after)
                        => \E i \in DOMAIN key_cache_file : key_cache_file[i] = k]_vars

\* C29: in a file written by merge() the reader's data_start + offset[key]
\* addresses the first byte of the key's records: for every key of the header
\* read_keys reads, the length[key] bytes from there are the records the
\* builder stored for the key.
C29_LayoutAgrees ==
    [][merge =>
          \A after \in {data_file'} :
              after # <<>> =>
                  \A r \in {read_keys(f, after) : f \in FreshReaders} :
                      \A i \in 1..Len(r.keys) :
                          LET pos == word_at(after, r.pos_start + 8 * (i - 1), 0)
                              len == word_at(after, r.len_start + 8 * (i - 1), 0)
                              at == (r.data_start + pos) \div 8
                          IN Words(after, at + 1, at + len \div 8)
                                 = record_words(ListIn(after, r.keys[i]))]_vars


\* the vertices whose counter thread i has still to read in this round
PendingReads(i) ==
    LET th == hb_threads[i]
        first == IF th.pc = "copy" THEN 1 ELSE th.e
    IN IF th.pc \notin {"copy", "add"} THEN {}
       ELSE {hb_edge_map[th.v + 1][k] : k \in first..Len(hb_edge_map[th.v + 1])}
                \cup UNION {{hb_edge_map[u + 1][k] : k \in 1..Len(hb_edge_map[u + 1])} :
                               u \in (th.v + 1)..(v_end(i) - 1)}

\* C24: within a round every worker reads, for every vertex w, the value c[w]
\* had at the start of the round: as long as a worker has c[w] still to read,
\* c[w] is what it was when the round's threads were started.
C24_RoundBarrier ==
    \A i \in DOMAIN hb_threads :
        \A w \in PendingReads(i) : hb_c[w] = hb_c_start[w]

\* C25: hyper_ball returns after exactly 40 rounds.
C25_FortyRounds ==
    hb_pc = "returned" => hb_rounds = hb_last_t

\* C25, amended: hyper_ball terminates, and it has then performed exactly 41
\* rounds (t = 0, 1, ..., 40).
C25_FortyOneRounds ==
    <>[](hb_pc = "returned" /\ hb_rounds = hb_last_t + 1 /\ hb_t = hb_last_t + 1)

C25_Witness ==
    hb_pc = "returned" /\ hb_rounds = hb_last_t + 1 /\ hb_edge_map = PathGraph

\* C26: for the path 0 -> 1 -> 2 -> 3 the vector hyper_ball returns has
\* harmonic[0] < harmonic[1] and harmonic[2] < harmonic[3].
C26_PathOrdering ==
    (hb_pc = "returned" /\ hb_edge_map = PathGraph) =>
        /\ hb_harmonic[0] < hb_harmonic[1]
        /\ hb_harmonic[2] < hb_harmonic[3]

\* C26, amended: for the path 0 -> 1 -> 2 -> 3 the order is the other way
\* round, harmonic[3] = 0 < harmonic[2] = 1 < harmonic[1] <= harmonic[0], with
\* 3/2 <= harmonic[1] <= 2 and 11/6 <= harmonic[0] <= 3, in every interleaving
\* of the threads.
C26_PathReversed ==
    (hb_pc = "returned" /\ hb_edge_map = PathGraph) =>
        /\ hb_harmonic[3] = 0
        /\ hb_harmonic[2] = HarmonicScale
        /\ 3 * HarmonicScale <= 2 * hb_harmonic[1]
        /\ hb_harmonic[1] <= 2 * HarmonicScale
        /\ hb_harmonic[1] <= hb_harmonic[0]
        /\ 11 * HarmonicScale <= 6 * hb_harmonic[0]
        /\ hb_harmonic[0] <= 3 * HarmonicScale

\* the path graph, returned with harmonic[0] = harmonic[1] = 2
C26_Witness ==
    /\ hb_pc = "returned" /\ hb_edge_map = PathGraph
    /\ hb_harmonic[0] = 2 * HarmonicScale
    /\ hb_harmonic[1] = 2 * HarmonicScale

\* C30: in index_domains, index_links and index_words no merger thread runs
\* while the final optimize() / calculate_scores() pass runs or after the
\* function has returned: every merger started in the loop was stopped before
\* the loop was left.
C30_MergerStopped ==
    (console_fn \in Drivers /\ console_pc \in {"final", "returned"}) => ~merger_running

\* C22: a task of the indexing pool whose chunk holds files that cannot be
\* opened (decompressed) skips them and nothing else: when it has returned it
\* has read exactly the files of its chunk that open, in order, has gone
\* through every file of the chunk, has flushed its cache and written the hash
\* table; and every task that was enqueued does return.
C22_FailuresNotFatal ==
    /\ [](\A id \in DOMAIN index_threads :
             index_threads[id].pc = "returned" =>
                 /\ index_threads[id].seen = opened_of(chunks[id], 1)
                 /\ index_threads[id].idx = Len(chunks[id]) + 1
                 /\ index_threads[id].flushed
                 /\ index_threads[id].written)
    /\ <>(/\ index_threads # <<>>
          /\ Len(index_threads) = Len(chunks)
          /\ all_ingested(index_threads))

\* a task has returned whose chunk has a file that does not open followed by
\* one that does, which it has read
C22_Witness ==
    \E id \in DOMAIN index_threads :
        /\ index_threads[id].pc = "returned"
        /\ Len(chunks[id]) = 2
        /\ chunks[id][1] = "unreadable"
        /\ chunks[id][2] = "ok"
        /\ index_threads[id].seen = <<2>>
        /\ index_threads[id].flushed

\* C23: whenever a truncation or a merge of a shard's builder is running, the
\* mutex of that shard is held (the appends of write_cache and flush_cache run
\* between the lock and the unlock of the shard's mutex by construction).
C23_MutexHeld ==
    /\ truncating => m_full_text_mutexes[shard_id] # 0
    /\ \A i \in running_merge_threads :
           m_full_text_mutexes[merge_results[i].shard] # 0

\* C27: in run() a merge task exists only when every chunk was enqueued and
\* every task of the indexing pool has returned, so that no merge of a shard
\* runs while a task appends to the shard; and sort() is entered only when no
\* merge task is left unfinished.
C27_PhaseOrder ==
    /\ (merge_results # <<>> \/ \E s \in DOMAIN merges_done : merges_done[s] > 0) =>
           /\ Len(index_threads) = Len(chunks)
           /\ \A id \in DOMAIN index_threads : index_threads[id].pc = "returned"
    /\ \A i \in running_merge_threads :
           \A id \in DOMAIN index_threads :
               ~(/\ index_threads[id].pc \in {"write_cache", "flush_cache"}
                 /\ index_threads[id].shard = merge_results[i].shard)
    /\ runner_pc \in {"sort", "returned"} =>
           /\ \A i \in DOMAIN merge_results : merge_results[i].state = "done"
           /\ \A id \in DOMAIN index_threads : index_threads[id].pc = "returned"

\* a merge runs after tasks of the indexing pool that appended have returned
C27_Witness ==
    /\ running_merge_threads # {}
    /\ Len(index_threads) >= 2
    /\ \A id \in DOMAIN index_threads :
           index_threads[id].pc = "returned" /\ index_threads[id].seen # <<>>

C31_Partition ==
    (hb_pc = "join" /\ hb_n >= 1) =>
        /\ DOMAIN hb_threads = 0..(num_threads - 1)
        /\ v_begin(0) = 0
        /\ v_end(num_threads - 1) = hb_n
        /\ \A i \in 0..(num_threads - 1) : v_begin(i) <= v_end(i)
        /\ \A i \in 0..(num_threads - 2) : v_end(i) = v_begin(i + 1)
        /\ \A v \in 0..(hb_n - 1) :
               Cardinality({i \in DOMAIN hb_threads : v \in slice(i)}) = 1
        /\ UNION {slice(i) : i \in DOMAIN hb_threads} = 0..(hb_n - 1)

\* the threads of a round are made for more vertices than threads, and a
\* number of them the thread count does not divide
C31_Witness ==
    /\ hb_pc = "join"
    /\ hb_n > hb_max_threads
    /\ hb_n % hb_max_threads # 0
    /\ DOMAIN hb_threads = 0..(hb_max_threads - 1)

\* C35: hyper_ball on the empty graph (n = 0) does not fault, and when it has
\* returned the harmonic vector is empty.
C35_EmptyGraph ==
    hb_n = 0 =>
        /\ hb_pc # "fault"
        /\ hb_pc = "returned" => hb_harmonic = <<>>

\* C32: merge() leaves the records that were add()ed and not yet append()ed
\* alone: m_keys and m_records are as before, and the lists it stores are made
\* of .data and the spill only.  The next append() writes them to the end of the
\* spill and empties the buffer, and the merge() after that stores, for every
\* key whose distinct values fit into a list, a record for each of them.
C32_PendingUntouched ==
    [][/\ merge =>
            /\ m_keys' = m_keys
            /\ m_records' = m_records
            /\ \A k \in Keys :
                   \A all \in {SumDedup(Folded(k))}, after \in {data_file'} :
                       /\ RecordSet(ListIn(after, k)) \subseteq all
                       /\ Cardinality(all) <= MaxResults =>
                              ValuesIn(SpillOf(k, key_cache_file, cache_file))
                                  \subseteq ValuesIn(ListIn(after, k))
       /\ append =>
            /\ key_cache_file' = key_cache_file \o m_keys
            /\ cache_file' = cache_file \o m_records
            /\ m_keys' = <<>>
            /\ m_records' = <<>>]_vars

\* every add() so far is still in the buffer while a merge() has emptied the
\* spill and written .data
C32_Witness ==
    /\ m_keys # <<>>
    /\ Len(m_keys) = n_adds
    /\ added.pending # <<>>
    /\ SpillEmpty
    /\ data_file # <<>>
    /\ m_total_results # EmptyMap

\* C33: across a merge() the total-results count stored for a key does not
\* decrease: every key that .data held before the merge() is stored after it
\* with a count at least as high.
C33_TotalsMonotone ==
    [][merge =>
        \A before \in {Stored.totals}, after \in {read_data_to_cache(data_file').totals} :
            \A k \in DOMAIN before :
                k \in DOMAIN after /\ after[k] >= before[k]]_vars

\* C34: the chunk size FullTextIndexerRunner::run passes to vector_chunk for
\* n >= 1 files and T >= 1 threads is ceil(n / T), at least 1, and cuts the
\* files into at most T chunks.
C34_ChunkSize ==
    (fn_call.name = "run_chunk_size" /\ fn_result # <<>>) =>
        \A n \in {fn_call.args[1]}, T \in {fn_call.args[2]}, len \in {fn_result[1]} :
            /\ len >= 1
            /\ len * T >= n
            /\ (len - 1) * T < n
            /\ chunk_count(n, len) <= T

\* the number of distinct source domains among the links to a target
DomainsLinking(links, target) ==
    Cardinality({links[i].domain : i \in {x \in DOMAIN links : links[x].target = target}})

RECURSIVE SumOfLinks(_, _, _)
SumOfLinks(links, results, j) ==
    IF j > Len(results) THEN 0
    ELSE DomainsLinking(links, results[j].value) + SumOfLinks(links, results, j + 1)

\* C37: for links ascending by target hash and results ascending and unique by
\* value, apply_url_links adds to the m_num_url_links of every result the number
\* of distinct source domains among the links to its value, leaves the values
\* and the order of the results as they were, and returns the sum of what it
\* added.
C37_ApplyUrlLinks ==
    (fn_call.name = "apply_url_links" /\ fn_result # <<>>) =>
        \A links \in {fn_call.args[1]}, results \in {fn_call.args[2]},
           out \in {fn_result[1]} :
            /\ Len(out.results) = Len(results)
            /\ \A j \in DOMAIN results :
                   /\ out.results[j].value = results[j].value
                   /\ out.results[j].num_url_links =
                          results[j].num_url_links + DomainsLinking(links, results[j].value)
            /\ out.ret = SumOfLinks(links, results, 1)

\* a call with two links of one domain to one target, a link of that domain to
\* another target, and both targets among the results
C37_Witness ==
    /\ fn_call.name = "apply_url_links"
    /\ fn_result # <<>>
    /\ Len(fn_call.args[1]) = 3
    /\ fn_call.args[1][1] = fn_call.args[1][2]
    /\ fn_call.args[1][3].domain = fn_call.args[1][1].domain
    /\ fn_call.args[1][3].target # fn_call.args[1][1].target
    /\ fn_result[1].ret = 2

\* C38: str_to_data reads only bytes of cstr at positions below len, and
\* returns the decoded record or an empty UrlData.
C38_StrToDataSafe ==
    (fn_call.name = "str_to_data" /\ fn_result # <<>>) =>
        /\ \A read \in fn_result[1].reads :
               read[2] = 0 \/ read[1] + read[2] <= fn_call.args[1]
        /\ fn_result[1].ret \in {"empty", "decoded"}

\* C36: index_urls, like index_domains, index_links and index_words, leaves
\* its loop once read_column_into gives no path, and returns.
C36_DriversReturn ==
    <>(console_pc = "returned")

\* a run_inserter call whose threads have all ended and are about to be joined
inserters_ended == inserter_pc = "join" /\ all_joined

\* C39: in every interleaving of the inserter threads of a run_inserter call a
\* pending file is taken by at most one thread, consumed once and deleted once;
\* the files are taken in the order they were enqueued; and when the threads
\* have ended, min(number of threads, number of files pending at the call)
\* files were taken, each of them consumed, deleted and gone from the disk.
C39_ConsumedOnce ==
    /\ \A f \in FileNames : consumed[f] <= 1 /\ deleted[f] <= 1
    /\ \A i, j \in DOMAIN taken :
           i # j => taken[i][1] # taken[j][1] /\ taken[i][2] # taken[j][2]
    /\ \A i \in DOMAIN taken :
           i <= Len(at_call.pending) /\ taken[i][2] = at_call.pending[i]
    /\ inserters_ended =>
           /\ Len(taken) = Min(MaxInserters, Len(at_call.pending))
           /\ \A i \in DOMAIN taken :
                  /\ consumed[taken[i][2]] = 1
                  /\ deleted[taken[i][2]] = 1
                  /\ taken[i][2] \notin DOMAIN cache_files

\* a call with more pending files than threads has ended: every thread took one
C39_Witness ==
    /\ inserters_ended
    /\ Len(at_call.pending) > MaxInserters
    /\ Len(taken) = MaxInserters
    /\ Len(m_pending_inserts) = Len(at_call.pending) - MaxInserters

\* the bitmasks have no bit in common and neither is 0
disjoint_updates(a, b) ==
    /\ a # 0
    /\ b # 0
    /\ \A bit \in {update_redirect, update_link_count, update_http_code,
                   update_last_visited} : ~(has_bit(a, bit) /\ has_bit(b, bit))

\* the stored record holds the fields of the update
reflects(stored, write_data) ==
    apply_update(stored, write_data.datas[1], write_data.update_bitmask) = stored

\* C40: when two pending files with disjoint update bitmasks for the same URL,
\* a URL the store held when run_inserter was called, were consumed by two
\* threads of the call, the record stored for the URL after the call holds the
\* fields of both updates.
C40_NoLostUpdate ==
    inserters_ended =>
        \A i, j \in DOMAIN taken :
            LET a == one_write_data[taken[i][1]]
                b == one_write_data[taken[j][1]]
            IN  (/\ i # j
                 /\ disjoint_updates(a.update_bitmask, b.update_bitmask)
                 /\ a.datas[1].url = b.datas[1].url
                 /\ Len(at_call.shards[a.datas[1].url]) > 0)
                => /\ reflects(UrlStore_get(m_shards, a.datas[1].url), a)
                   /\ reflects(UrlStore_get(m_shards, a.datas[1].url), b)

====
